---- MODULE Spec2Model ----
(***************************************************************************)
(* Verification model of the fail library (MintzyG/fail): the identifier   *)
(* allocator (id.go), the definition registry (registry.go, core.go), the  *)
(* mapper chain (mappers.go), the hook engine (hooks.go), and the helpers  *)
(* built on them: error groups, error chains and the retry loop.           *)
(*                                                                         *)
(* Strings are modelled as sequences of one-character strings so that the  *)
(* byte-wise functions of the source (hasPrefix, toLower, Levenshtein      *)
(* distance, fmt.Sprintf rendering) are computed as the code computes them.*)
(***************************************************************************)
EXTENDS Integers, Sequences, FiniteSets, TLC

VARIABLES
    registeredIDs,             \* IDRegistry.registeredIDs : name -> ErrorID
    numberIndex,               \* IDRegistry.numberIndex   : group key -> sorted list of numberNode
    mu,                        \* IDRegistry.mu            : 0 = unlocked, else the holder
    allowRuntimeRegistration,  \* IDRegistry.allowRuntimeRegistration
    idAllowRuntimePanics,      \* IDRegistry.allowRuntimePanics (*bool): "nil", "true", "false"
    allowRuntimePanics,        \* package-level allowRuntimePanics
    result,                    \* the allocation call that has just returned (sequential caller)
    threads,                   \* per goroutine: the allocation call in progress and its position
    errors,                    \* Registry.errors         : per registry, ID.String() -> template
    definitions,               \* Registry.definitions    : per registry, ErrorID -> ErrorDefinition
    genericMappers,            \* Registry.genericMappers : per registry, the MapperList
    hooks,                     \* Registry.hooks          : per registry and hook type, the listeners
    panicOnStaticMutations,    \* Registry.panicOnStaticMutations
    heap,                      \* the *Error instances the application holds, by address
    metas,                     \* the map[string]any values behind Error.Meta, by address
    op,                        \* the registry operation that has just returned
    hooksMu,                   \* Hooks.mu (sync.RWMutex) per registry: readers and writer
    running,                   \* the goroutine inside a run* function of Hooks
    allowInternalLogs,         \* Registry.allowInternalLogs
    allowStaticMutations,      \* Registry.allowStaticMutations
    group,                     \* an ErrorGroup: its errors slice and its mu (sync.RWMutex)
    goroutines,                \* per goroutine: the ErrorGroup call in progress and its position
    chain,                     \* an ErrorChain: its err and its step
    steps,                     \* the calls made on the chain so far, and whether the function ran
    retryConfig,               \* the package-level retryConfig (atomic.Pointer[RetryConfig])
    retry,                     \* the Retry call in progress: its config, its loop index, its calls
    mapperMu,                  \* MapperList.mu (sync.RWMutex) of the registry "custom"
    registryMu,                \* Registry.mu of the registry "custom": 0 or its holder
    callers                    \* per goroutine: its From or RegisterMapper call and its position

allocFlags == <<allowRuntimeRegistration, idAllowRuntimePanics, allowRuntimePanics>>

allocVars == <<registeredIDs, numberIndex, mu, allocFlags, result, threads>>

groupVars == <<group, goroutines>>

chainVars == <<chain, steps>>

retryVars == <<retryConfig, retry>>

lockVars == <<mapperMu, registryMu, callers>>

auxVars == <<groupVars, chainVars, retryVars, lockVars>>

runVars == <<hooksMu, running, allowInternalLogs, allowStaticMutations, auxVars>>

coreVars == <<allocVars, errors, definitions, genericMappers, hooks, panicOnStaticMutations,
              heap, metas, op, hooksMu, running, allowInternalLogs, allowStaticMutations>>

exceptGroup == <<coreVars, chainVars, retryVars, lockVars>>

exceptChain == <<coreVars, groupVars, retryVars, lockVars>>

exceptRetry == <<coreVars, groupVars, chainVars, lockVars>>

exceptMappers ==
    <<allocVars, errors, definitions, hooks, panicOnStaticMutations, heap, metas, op, hooksMu,
      running, allowInternalLogs, allowStaticMutations, groupVars, chainVars, retryVars>>

regVars == <<errors, definitions, genericMappers, hooks, panicOnStaticMutations, heap, metas, op,
             runVars>>

vars == <<allocVars, regVars>>

-----------------------------------------------------------------------------
(* Bounds of the model                                                     *)

MaxNumber == 4
NumThreads == 2
MaxChain == 4
MaxAttempts == 3

-----------------------------------------------------------------------------
(* Strings                                                                 *)

reservedDomain == <<"F", "A", "I", "L">>

DomA == <<"A">>
DomB == <<"A", "b">>

Domains == {DomA, reservedDomain}

NameAa == <<"A", "a", "a", "a", "a">>
NameAb == <<"A", "b", "b", "b", "b">>
NameAc == <<"a", "c", "c", "c", "c">>
NameAd == <<"A", "d", "d", "d", "d">>
NameAx == <<"A", "a", "a", "a", "b">>
NameFx == <<"F", "a", "i", "l", "x">>

Names == {NameAa, NameAb, NameAc, NameAx, NameFx}

\* names at distance 3 from NameAa, by substitution and by deletion, and a
\* name at distance 4 by deletion
NameAy == <<"A", "a", "b", "b", "b">>
NameAs == <<"A", "a">>
NameAt == <<"A">>
NameAz == <<"A", "b", "b", "b", "c">>
NameAw == <<"A", "b", "d", "d", "d", "d">>

\* a category that holds a space, and a name that has it as its prefix
DomSp == <<"A", " ">>
NameSp == <<"A", " ", "e", "e", "e", "e">>

Levels == {0}

Numbers == (0 - 1)..MaxNumber

UpperChars == <<"A", "F", "I", "L">>
LowerChars == <<"a", "f", "i", "l">>

\* c += 'a' - 'A' for c in 'A'..'Z', every other byte unchanged
toLowerChar(c) ==
    IF \E k \in 1..Len(UpperChars) : UpperChars[k] = c
    THEN LowerChars[CHOOSE k \in 1..Len(UpperChars) : UpperChars[k] = c]
    ELSE c

toLower(s) == [i \in 1..Len(s) |-> toLowerChar(s[i])]

hasPrefix(name, domain) ==
    IF Len(name) < Len(domain)
    THEN FALSE
    ELSE toLower(SubSeq(name, 1, Len(domain))) = toLower(domain)

minInt(a, b, c) ==
    IF a < b
    THEN (IF a < c THEN a ELSE c)
    ELSE (IF b < c THEN b ELSE c)

\* one row of the rolling two-row table: curr[0..n] from prev[0..n] for row i
RECURSIVE levRow(_, _, _, _, _)
levRow(s1, s2, i, prev, curr) ==
    LET j == Len(curr)            \* curr holds curr[0..j-1]; sequences are 1-based
    IN IF j > Len(s2)
       THEN curr
       ELSE LET cost == IF s1[i] # s2[j] THEN 1 ELSE 0
                v == minInt(prev[j + 1] + 1, curr[j] + 1, prev[j] + cost)
            IN levRow(s1, s2, i, prev, Append(curr, v))

RECURSIVE levRows(_, _, _, _)
levRows(s1, s2, i, prev) ==
    IF i > Len(s1)
    THEN prev
    ELSE levRows(s1, s2, i + 1, levRow(s1, s2, i, prev, <<i>>))

levenshteinDistance(s1, s2) ==
    IF Len(s1) = 0 THEN Len(s2)
    ELSE IF Len(s2) = 0 THEN Len(s1)
    ELSE levRows(s1, s2, 1, [j \in 1..(Len(s2) + 1) |-> j - 1])[Len(s2) + 1]

DigitChars == <<"0", "1", "2", "3", "4", "5", "6", "7", "8", "9">>

RECURSIVE Digits(_)
Digits(n) ==
    IF n < 10 THEN <<DigitChars[n + 1]>>
    ELSE Digits(n \div 10) \o <<DigitChars[(n % 10) + 1]>>

RECURSIVE PadLeft(_, _)
PadLeft(s, w) == IF Len(s) >= w THEN s ELSE PadLeft(<<"0">> \o s, w)

\* fmt verbs %d and %04d (the sign counts towards the width)
FmtD(n) == IF n >= 0 THEN Digits(n) ELSE <<"-">> \o Digits(0 - n)
Fmt04d(n) == IF n >= 0 THEN PadLeft(Digits(n), 4) ELSE <<"-">> \o PadLeft(Digits(0 - n), 3)

BoolStr(b) == IF b THEN <<"t", "r", "u", "e">> ELSE <<"f", "a", "l", "s", "e">>

\* ErrorID.String(): "%d_%s_%04d_%s"
String(id) ==
    FmtD(id.level) \o <<"_">> \o id.domain \o <<"_">> \o Fmt04d(id.number)
        \o <<"_">> \o <<IF id.isStatic THEN "S" ELSE "D">>

\* a group key without the category: one list per kind
GroupKeyKindOnly(domain, static) == BoolStr(static)

\* groupKey := fmt.Sprintf("%s:%v", domain, static)
GroupKey(domain, static) == domain \o <<":">> \o BoolStr(static)

GroupKeys == {GroupKey(d, s) : d \in Domains, s \in BOOLEAN}

-----------------------------------------------------------------------------
(* Identifier allocator                                                    *)

ErrorID(name, domain, level, static, number, registered) ==
    [name |-> name, domain |-> domain, level |-> level, isStatic |-> static,
     number |-> number, isRegistered |-> registered]

IsRegistered(id) == id.isRegistered

IsStatic(id) == id.isStatic

\* the list of a group, empty when numberIndex has no entry for the key
GroupList(idx, key) == IF key \in DOMAIN idx THEN idx[key] ELSE <<>>

\* The walk over the group's list: collision check, gap check and search for
\* the insertion point. insertAfter is an index into the list, 0 for nil.
RECURSIVE WalkList(_, _, _, _, _, _)
WalkList(list, number, i, insertAfter, prevNum, foundInsertion) ==
    IF i > Len(list)
    THEN [panic |-> "none", insertAfter |-> insertAfter, foundInsertion |-> foundInsertion]
    ELSE LET node == list[i]
             expected == prevNum + 1
         IN IF node.number = number
            THEN [panic |-> "collision", insertAfter |-> insertAfter,
                  foundInsertion |-> foundInsertion]
            ELSE IF /\ node.number # expected
                    /\ ~(~foundInsertion /\ number >= expected /\ number < node.number)
            THEN [panic |-> "gap", insertAfter |-> insertAfter,
                  foundInsertion |-> foundInsertion]
            ELSE IF ~foundInsertion /\ node.number > number
            THEN WalkList(list, number, i + 1, insertAfter, node.number, TRUE)
            ELSE IF node.number < number
            THEN WalkList(list, number, i + 1, i, node.number, foundInsertion)
            ELSE WalkList(list, number, i + 1, insertAfter, node.number, foundInsertion)

\* the check after the loop: a gap at the end that the call does not fill
EndGap(list, number, w) ==
    /\ ~w.foundInsertion
    /\ number # (IF w.insertAfter # 0 THEN list[w.insertAfter].number + 1 ELSE 0)

\* numList.PushFront / numList.InsertAfter
InsertNode(list, node, insertAfter) ==
    IF insertAfter = 0
    THEN <<node>> \o list
    ELSE SubSeq(list, 1, insertAfter) \o <<node>> \o SubSeq(list, insertAfter + 1, Len(list))

\* a Validate that lets a name at distance 3 pass
ValidateSimilarBelow3(ids, idx, domain, number, static, name) ==
    LET list == GroupList(idx, GroupKey(domain, static))
        w == WalkList(list, number, 1, 0, 0 - 1, FALSE)
    IN IF ~hasPrefix(name, domain) THEN "prefix"
       ELSE IF name \in DOMAIN ids THEN "duplicate"
       ELSE IF \E existingName \in DOMAIN ids : levenshteinDistance(name, existingName) < 3
       THEN "similar"
       ELSE IF w.panic # "none" THEN w.panic
       ELSE IF EndGap(list, number, w) THEN "gap"
       ELSE "none"

\* Validations 1-3 shared by ID and internalID, then the walk. The result
\* names the panic ("none" when the call is accepted).
Validate(ids, idx, domain, number, static, name) ==
    LET list == GroupList(idx, GroupKey(domain, static))
        w == WalkList(list, number, 1, 0, 0 - 1, FALSE)
    IN IF ~hasPrefix(name, domain) THEN "prefix"
       ELSE IF name \in DOMAIN ids THEN "duplicate"
       ELSE IF \E existingName \in DOMAIN ids : levenshteinDistance(name, existingName) <= 3
       THEN "similar"
       ELSE IF w.panic # "none" THEN w.panic
       ELSE IF EndGap(list, number, w) THEN "gap"
       ELSE "none"

\* the group list exists once the name validations have passed
GroupCreated(verdict) == verdict \in {"none", "collision", "gap"}

\* an allocator that inserts the node before the check of the end of the list
IndexAfterInsertingFirst(idx, verdict, level, domain, number, static, name) ==
    LET key == GroupKey(domain, static)
        list == GroupList(idx, key)
        w == WalkList(list, number, 1, 0, 0 - 1, FALSE)
        id == ErrorID(name, domain, level, static, number, TRUE)
        newNode == [number |-> number, name |-> name, id |-> String(id)]
    IN IF verdict \in {"none", "gap"} /\ w.panic = "none"
       THEN (key :> InsertNode(list, newNode, w.insertAfter)) @@ idx
       ELSE idx

\* numberIndex after a call with the given verdict
IndexAfter(idx, verdict, level, domain, number, static, name) ==
    LET key == GroupKey(domain, static)
        list == GroupList(idx, key)
        w == WalkList(list, number, 1, 0, 0 - 1, FALSE)
        id == ErrorID(name, domain, level, static, number, TRUE)
        newNode == [number |-> number, name |-> name, id |-> String(id)]
    IN IF verdict = "none"
       THEN (key :> InsertNode(list, newNode, w.insertAfter)) @@ idx
       ELSE IF GroupCreated(verdict)
       THEN (key :> list) @@ idx
       ELSE idx

\* an allocator that stores the identifier of every call under its name
IDsAfterOverwriting(ids, verdict, level, domain, number, static, name) ==
    IF verdict \in {"none", "duplicate"}
    THEN (name :> ErrorID(name, domain, level, static, number, TRUE)) @@ ids
    ELSE ids

IDsAfter(ids, verdict, level, domain, number, static, name) ==
    IF verdict = "none"
    THEN (name :> ErrorID(name, domain, level, static, number, TRUE)) @@ ids
    ELSE ids

\* a Lock that returns although another goroutine holds the mutex
MutexNotExclusive == TRUE

\* r.mu.Lock() returns only when no goroutine holds the mutex
MutexFree == mu = 0

\* a guard that reads the override of the registry only
ShouldPanicOverrideOnly == idAllowRuntimePanics = "true"

\* shouldPanic of the run-time guard
ShouldPanic == idAllowRuntimePanics = "true" \/ allowRuntimePanics

\* no call has returned a value that the caller has not yet taken
NoCall == [op |-> "none"]

Call(fn, level, domain, number, static, name, outcome) ==
    [op |-> fn, level |-> level, domain |-> domain, number |-> number,
     static |-> static, name |-> name, outcome |-> outcome]

\* an ID without Validation 0: the reserved category passes
IDReservedAllowed(level, domain, number, static, name, beforeMain) ==
    /\ MutexFree
    /\ result = NoCall
    /\ IF ~beforeMain /\ ~allowRuntimeRegistration
       THEN /\ result' = [beforeMain |-> beforeMain] @@
                           Call("ID", level, domain, number, static, name,
                                IF ShouldPanic THEN "runtimePanic" ELSE "RuntimeIDInvalid")
            /\ UNCHANGED <<registeredIDs, numberIndex>>
       ELSE LET verdict == Validate(registeredIDs, numberIndex, domain, number, static, name)
            IN /\ registeredIDs' = IDsAfter(registeredIDs, verdict, level, domain, number, static, name)
               /\ numberIndex' = IndexAfter(numberIndex, verdict, level, domain, number, static, name)
               /\ result' = [beforeMain |-> beforeMain] @@
                              Call("ID", level, domain, number, static, name, verdict)
    /\ UNCHANGED <<mu, allocFlags, threads, regVars>>

\* IDRegistry.ID, as one critical section
ID(level, domain, number, static, name, beforeMain) ==
    /\ MutexFree
    /\ result = NoCall
    /\ IF ~beforeMain /\ ~allowRuntimeRegistration
       THEN /\ result' = [beforeMain |-> beforeMain] @@
                           Call("ID", level, domain, number, static, name,
                                IF ShouldPanic THEN "runtimePanic" ELSE "RuntimeIDInvalid")
            /\ UNCHANGED <<registeredIDs, numberIndex>>
       ELSE LET verdict == IF domain = reservedDomain THEN "reserved"
                           ELSE Validate(registeredIDs, numberIndex, domain, number, static, name)
            IN /\ registeredIDs' = IDsAfter(registeredIDs, verdict, level, domain, number, static, name)
               /\ numberIndex' = IndexAfter(numberIndex, verdict, level, domain, number, static, name)
               /\ result' = [beforeMain |-> beforeMain] @@
                              Call("ID", level, domain, number, static, name, verdict)
    /\ UNCHANGED <<mu, allocFlags, threads, regVars>>

\* OverrideAllowIDRuntimeRegistrationForTestingOnly
OverrideAllowIDRuntimeRegistrationForTestingOnly(allow) ==
    /\ MutexFree
    /\ result = NoCall
    /\ allowRuntimeRegistration' = allow
    /\ UNCHANGED <<registeredIDs, numberIndex, mu, idAllowRuntimePanics, allowRuntimePanics,
                   result, threads, regVars>>

\* IDRegistry.OverrideAllowRuntimePanics: the pointer is set to a copy of allow
OverrideAllowRuntimePanics(allow) ==
    /\ MutexFree
    /\ result = NoCall
    /\ idAllowRuntimePanics' = IF allow THEN "true" ELSE "false"
    /\ UNCHANGED <<registeredIDs, numberIndex, mu, allowRuntimeRegistration, allowRuntimePanics,
                   result, threads, regVars>>

\* IDRegistry.internalID
internalID(level, number, static, name) ==
    /\ MutexFree
    /\ result = NoCall
    /\ LET verdict == Validate(registeredIDs, numberIndex, reservedDomain, number, static, name)
       IN /\ registeredIDs' = IDsAfter(registeredIDs, verdict, level, reservedDomain, number, static, name)
          /\ numberIndex' = IndexAfter(numberIndex, verdict, level, reservedDomain, number, static, name)
          /\ result' = Call("internalID", level, reservedDomain, number, static, name, verdict)
    /\ UNCHANGED <<mu, allocFlags, threads, regVars>>

\* the bytes of the characters that occur in categories
ByteOf(c) ==
    CASE c = " " -> 32
      [] c = ":" -> 58
      [] c = "A" -> 65
      [] c = "F" -> 70
      [] c = "I" -> 73
      [] c = "L" -> 76
      [] c = "b" -> 98

\* a < b on Go strings: byte by byte, a proper prefix first
RECURSIVE stringLess(_, _, _)
stringLess(a, b, i) ==
    IF i > Len(b) THEN FALSE
    ELSE IF i > Len(a) THEN TRUE
    ELSE IF a[i] # b[i] THEN ByteOf(a[i]) < ByteOf(b[i])
    ELSE stringLess(a, b, i + 1)

\* a comparison that leaves the kind out
lessByDomainAndNumber(a, b) ==
    IF a.domain # b.domain THEN stringLess(a.domain, b.domain, 1)
    ELSE a.number < b.number

\* the less function handed to sort.Slice by GetAllIDs and ExportIDList
less(a, b) ==
    IF a.domain # b.domain THEN stringLess(a.domain, b.domain, 1)
    ELSE IF a.isStatic # b.isStatic THEN a.isStatic
    ELSE a.number < b.number

\* the values of the map registeredIDs
RegisteredIDValues(ids) == {ids[n] : n \in DOMAIN ids}

\* sort.Slice on the values collected in the order of the map iteration,
\* which is any order: every arrangement in which no element is less than
\* an element in front of it
RECURSIVE SortSlice(_)
SortSlice(S) ==
    IF S = {} THEN {<<>>}
    ELSE UNION {{<<m>> \o rest : rest \in SortSlice(S \ {m})} :
                    m \in {x \in S : \A y \in S : ~less(y, x)}}

\* IDRegistry.GetAllIDs
GetAllIDs ==
    /\ MutexFree
    /\ result = NoCall
    /\ \E ids \in SortSlice(RegisteredIDValues(registeredIDs)) :
           result' = [op |-> "GetAllIDs", ids |-> ids]
    /\ UNCHANGED <<registeredIDs, numberIndex, mu, allocFlags, threads, regVars>>

\* the exportEntry that ExportIDList makes of an identifier
ExportEntry(id) ==
    [Name |-> id.name, Domain |-> id.domain, Static |-> id.isStatic, Level |-> id.level,
     Number |-> id.number, ID |-> String(id)]

\* IDRegistry.ExportIDList: the entries that json.MarshalIndent writes
ExportIDList ==
    /\ MutexFree
    /\ result = NoCall
    /\ \E ids \in SortSlice(RegisteredIDValues(registeredIDs)) :
           result' = [op |-> "ExportIDList",
                      entries |-> [i \in 1..Len(ids) |-> ExportEntry(ids[i])]]
    /\ UNCHANGED <<registeredIDs, numberIndex, mu, allocFlags, threads, regVars>>

\* the index of the first element of s at or after i that is a space, or is
\* none when wantSpace is false; Len(s) + 1 when there is no such element
RECURSIVE Scan(_, _, _)
Scan(s, i, wantSpace) ==
    IF i > Len(s) THEN Len(s) + 1
    ELSE IF (s[i] = " ") = wantSpace THEN i
    ELSE Scan(s, i + 1, wantSpace)

\* a scan of the group key that splits it at the colon
SscanfSplitAtColon(key) ==
    LET colon == CHOOSE i \in 1..Len(key) : key[i] = ":" /\ \A j \in (i + 1)..Len(key) : key[j] # ":"
    IN IF \E i \in 1..Len(key) : key[i] = ":"
       THEN [err |-> SubSeq(key, colon + 1, Len(key)) \notin {BoolStr(TRUE), BoolStr(FALSE)},
             domain |-> SubSeq(key, 1, colon - 1)]
       ELSE [err |-> TRUE, domain |-> <<>>]

\* fmt.Sscanf(groupKey, "%s:%v", &domain, &static): %s skips spaces and takes
\* the characters up to the next space or the end of the input, then the
\* colon of the format must be the next character of the input, then %v
\* reads true or false
Sscanf(key) ==
    LET from == Scan(key, 1, FALSE)
        to == Scan(key, from, TRUE)
        rest == SubSeq(key, to, Len(key))
    IN IF from > Len(key) THEN [err |-> TRUE, domain |-> <<>>]
       ELSE IF rest = <<>> \/ rest[1] # ":"
       THEN [err |-> TRUE, domain |-> SubSeq(key, from, to - 1)]
       ELSE [err |-> SubSeq(rest, 2, Len(rest)) \notin {BoolStr(TRUE), BoolStr(FALSE)},
             domain |-> SubSeq(key, from, to - 1)]

\* the body of the loop of validateNoGaps for one group: the panic it
\* raises, "none" when it goes on to the next group
ValidateGroup(key, list) ==
    IF Len(list) = 0 THEN "none"
    ELSE IF Sscanf(key).err THEN "invalid group key"
    ELSE IF \E i \in 1..Len(list) : list[i].number # i - 1 THEN "gap"
    ELSE "none"

\* IDRegistry.ValidateIDs / validateNoGaps: the groups are visited in the
\* order of the map iteration and the first panic ends the call
ValidateIDs ==
    /\ MutexFree
    /\ result = NoCall
    /\ LET panics == {ValidateGroup(k, numberIndex[k]) : k \in DOMAIN numberIndex} \ {"none"}
       IN IF panics = {}
          THEN result' = [op |-> "ValidateIDs", outcome |-> "none"]
          ELSE \E x \in panics : result' = [op |-> "ValidateIDs", outcome |-> x]
    /\ UNCHANGED <<registeredIDs, numberIndex, mu, allocFlags, threads, regVars>>

-----------------------------------------------------------------------------
(* Definition registry, mapper chain and hook engine: data                 *)

MaxHooks == 3
MaxMappers == 3
MaxHeap == 2
MaxBatch == 2

\* the process-wide default registry, one made by NewRegistry(), and a
\* zero-value Registry{} (nil maps, nil mapper list)
Registries == {"global", "custom", "zero"}

HookTypes ==
    {"HookCreate", "HookLog", "HookTrace", "HookMap", "HookWrap", "HookFromFail",
     "HookFromSuccess", "HookForm", "HookTranslate", "HookMatch"}

\* the hook types whose run* function New, Form, From and With call
FiredHookTypes == {"HookCreate", "HookWrap", "HookFromFail", "HookFromSuccess", "HookForm"}

\* the function types of the slices of Hooks
SigContext == "func(*Error, map[string]any)"
SigWrap == "func(*Error, error)"
SigFromFail == "func(error)"
SigFromSuccess == "func(error, *Error)"
SigForm == "func(ErrorID, *Error)"

\* the library's own identifiers, as internalID returns them
UnregisteredError ==
    ErrorID(<<"F", "a", "i", "l", "U", "n", "r", "e", "g", "i", "s", "t", "e", "r", "e", "d",
              "E", "r", "r", "o", "r">>, reservedDomain, 0, FALSE, 0, TRUE)
NotMatchedInAnyMapper ==
    ErrorID(<<"F", "a", "i", "l", "N", "o", "t", "M", "a", "t", "c", "h", "e", "d", "I", "n",
              "A", "n", "y", "M", "a", "p", "p", "e", "r">>, reservedDomain, 0, FALSE, 11, TRUE)
NoMapperRegistered ==
    ErrorID(<<"F", "a", "i", "l", "N", "o", "M", "a", "p", "p", "e", "r", "R", "e", "g", "i",
              "s", "t", "e", "r", "e", "d">>, reservedDomain, 0, FALSE, 12, TRUE)

\* identifiers of the application: two minted by the default allocator, one
\* minted by a second allocator (NewIDRegistry) that renders like the first
UserA == ErrorID(NameAa, DomA, 0, TRUE, 0, TRUE)
UserB == ErrorID(NameAb, DomA, 0, FALSE, 0, TRUE)
TwinA == ErrorID(NameAd, DomA, 0, TRUE, 0, TRUE)

\* identifiers that no allocator produced: the zero value ErrorID{} and a
\* struct literal that copies the fields of a minted one
ZeroID == ErrorID(<<>>, <<>>, 0, FALSE, 0, FALSE)
ForgedA == ErrorID(NameAa, DomA, 0, TRUE, 0, FALSE)

SentinelIDs == {UnregisteredError, NotMatchedInAnyMapper, NoMapperRegistered}
MintedIDs == SentinelIDs \cup {UserA, UserB, TwinA}
ForgedIDs == {ZeroID, ForgedA}

\* a trust check that lets every identifier through
IsTrustedAlways(id) == TRUE

\* ErrorID.IsTrusted
IsTrusted(id) == id.isRegistered

\* error values: nil, a foreign error, a *Error at a heap address, and a
\* foreign error that wraps a *Error (fmt.Errorf("%w", e))
NilError == [kind |-> "nil"]
Foreign(v) == [kind |-> "foreign", val |-> v]
FailPtr(p) == [kind |-> "fail", ptr |-> p]
Wraps(p) == [kind |-> "wraps", ptr |-> p]

ForeignErrors == {"e1", "e2"}

\* the *Error a caller passes to Register
\* Error.Meta: nil, the address of a map, or a map that New has just made
\* and that gets its address when the caller keeps the instance
NilMeta == [kind |-> "nil"]
MetaRef(a) == [kind |-> "ref", addr |-> a]
MetaCopy(entries) == [kind |-> "copy", entries |-> entries]

TemplateWithMeta(id, msg, sys, meta) ==
    [ID |-> id, Message |-> msg, IsSystem |-> sys, Meta |-> meta]

Template(id, msg, sys) == TemplateWithMeta(id, msg, sys, NilMeta)

\* the *Error built by Registry.New
Instance(id, msg, sys, r) ==
    [ID |-> id, Message |-> msg, IsSystem |-> sys, Cause |-> NilError, Args |-> <<>>,
     Meta |-> NilMeta, registry |-> r, isStatic |-> FALSE]

Defaults == {<<"first message", FALSE>>, <<"second message", TRUE>>}

\* return values of the registry operations
RetNone == [kind |-> "none"]
RetNil == [kind |-> "nil"]
RetSame(p) == [kind |-> "same", ptr |-> p]
RetFresh(obj) == [kind |-> "fresh", obj |-> obj]

NoOp == [name |-> "none"]

Op(name, r, arg, ret, aborted, invoked, mapCalls) ==
    [name |-> name, reg |-> r, arg |-> arg, ret |-> ret, aborted |-> aborted,
     invoked |-> invoked, mapCalls |-> mapCalls]

-----------------------------------------------------------------------------
(* Hook engine                                                             *)

\* a listener list cut at its first panicking listener
RECURSIVE UpToFirstPanic(_, _)
UpToFirstPanic(listeners, i) ==
    IF i > Len(listeners) THEN Len(listeners)
    ELSE IF listeners[i] = "panic" THEN i
    ELSE UpToFirstPanic(listeners, i + 1)

\* executeHooks without the deferred recover: the first panic ends the loop
\* and unwinds into the caller
executeHooksUnrecovered(listeners, r, t) ==
    [invoked |-> [i \in 1..UpToFirstPanic(listeners, 1) |-> <<r, t, i>>],
     panicked |-> \E i \in 1..Len(listeners) : listeners[i] = "panic"]

\* an executeHooks that walks the snapshot from the back
executeHooksReversed(listeners, r, t) ==
    [invoked |-> [i \in 1..Len(listeners) |-> <<r, t, Len(listeners) + 1 - i>>],
     panicked |-> FALSE]

\* executeHooks: every listener of the snapshot is called in order inside
\* its own func with a deferred recover, so a panic ends that call only
executeHooks(listeners, r, t) ==
    [invoked |-> [i \in 1..Len(listeners) |-> <<r, t, i>>],
     panicked |-> FALSE]

\* a sync.RWMutex that nobody holds
RWUnlocked == [readers |-> 0, writer |-> FALSE]

\* no goroutine is inside a run* function
NotRunning ==
    [pc |-> "idle", reg |-> "global", typ |-> "HookCreate", hooks |-> <<>>, i |-> 0,
     invoked |-> <<>>, todo |-> 0]

\* runCreate, runWrap, runFromFail, runFromSuccess, runForm: snapshot of the
\* list under the read lock, then executeHooks
RunHooks(r, t) == executeHooks(hooks[r][t], r, t)

\* the number of listeners registered in all registries
RECURSIVE CountListeners(_)
CountListeners(lists) ==
    IF lists = {} THEN 0
    ELSE LET l == CHOOSE x \in lists : TRUE
         IN Len(hooks[l[1]][l[2]]) + CountListeners(lists \ {l})

TotalListeners == CountListeners(Registries \X HookTypes)

\* Hooks.On for a callback of the signature the hook type requires
On(r, t, listener) ==
    /\ op = NoOp
    /\ TotalListeners < MaxHooks
    /\ hooks' = [hooks EXCEPT ![r][t] = Append(@, listener)]
    /\ op' = Op("On", r, t, RetNone, FALSE, <<>>, <<>>)
    /\ UNCHANGED <<errors, definitions, genericMappers, panicOnStaticMutations, heap, metas, allocVars, runVars>>

\* a table that asks of a HookFromSuccess callback the type its panic
\* message names, func(error)
RequiredSignatureAsMessages(t) ==
    IF t \in {"HookFromFail", "HookFromSuccess"} THEN SigFromFail
    ELSE IF t = "HookWrap" THEN SigWrap
    ELSE IF t = "HookForm" THEN SigForm
    ELSE SigContext

\* the type the case of a hook type asserts of fn in Hooks.On
RequiredSignature(t) ==
    CASE t = "HookCreate" -> SigContext
      [] t = "HookLog" -> SigContext
      [] t = "HookTrace" -> SigContext
      [] t = "HookMap" -> SigContext
      [] t = "HookWrap" -> SigWrap
      [] t = "HookFromFail" -> SigFromFail
      [] t = "HookFromSuccess" -> SigFromSuccess
      [] t = "HookForm" -> SigForm
      [] t = "HookTranslate" -> SigContext
      [] t = "HookMatch" -> SigContext

\* Hooks.On for any HookType value and any fn: the default case and a failed
\* type assertion panic before the lock is taken, otherwise fn is appended
\* to the slice of the case
HooksOn(r, t, fn) ==
    /\ op = NoOp
    /\ IF t \in HookTypes /\ fn.sig = RequiredSignature(t)
       THEN /\ TotalListeners < MaxHooks
            /\ hooks' = [hooks EXCEPT ![r][t] = Append(@, fn.run)]
            /\ op' = [fn |-> fn] @@ Op("HooksOn", r, t, RetNone, FALSE, <<>>, <<>>)
       ELSE /\ hooks' = hooks
            /\ op' = [fn |-> fn] @@ Op("HooksOn", r, t, RetNone, TRUE, <<>>, <<>>)
    /\ UNCHANGED <<errors, definitions, genericMappers, panicOnStaticMutations, heap, metas,
                   allocVars, runVars>>

-----------------------------------------------------------------------------
(* The run* functions of Hooks step by step, with listeners that call On   *)

\* the listeners of a list that register another listener when they run
NumRegistering(listeners) ==
    Cardinality({i \in 1..Len(listeners) : listeners[i] = "register"})

\* h.mu.RLock() at the start of run*; the lists stay within MaxHooks when
\* every registering listener of this list has run
RLock(r, t) ==
    /\ running.pc = "idle"
    /\ ~hooksMu[r].writer
    /\ TotalListeners + NumRegistering(hooks[r][t]) <= MaxHooks
    /\ hooksMu' = [hooksMu EXCEPT ![r].readers = @ + 1]
    /\ running' = [NotRunning EXCEPT !.pc = "rlocked", !.reg = r, !.typ = t,
                                     !.todo = NumRegistering(hooks[r][t])]
    /\ UNCHANGED <<errors, definitions, genericMappers, hooks, panicOnStaticMutations,
                   heap, metas, op, allowInternalLogs, allowStaticMutations, auxVars, allocVars>>

\* hooks := h.onCreate (or the list of the event that runs)
Snapshot ==
    /\ running.pc = "rlocked"
    /\ running' = [running EXCEPT !.pc = "snapshot", !.hooks = hooks[running.reg][running.typ]]
    /\ UNCHANGED <<errors, definitions, genericMappers, hooks, panicOnStaticMutations,
                   heap, metas, op, hooksMu, allowInternalLogs, allowStaticMutations, auxVars, allocVars>>

\* a run* that defers the RUnlock to its return
RUnlockDeferred ==
    /\ running.pc = "snapshot"
    /\ running' = [running EXCEPT !.pc = "exec", !.i = 1]
    /\ UNCHANGED <<errors, definitions, genericMappers, hooks, panicOnStaticMutations,
                   heap, metas, op, hooksMu, allowInternalLogs, allowStaticMutations, auxVars, allocVars>>

\* h.mu.RUnlock(), before executeHooks is entered
RUnlock ==
    /\ running.pc = "snapshot"
    /\ hooksMu' = [hooksMu EXCEPT ![running.reg].readers = @ - 1]
    /\ running' = [running EXCEPT !.pc = "exec", !.i = 1]
    /\ UNCHANGED <<errors, definitions, genericMappers, hooks, panicOnStaticMutations,
                   heap, metas, op, allowInternalLogs, allowStaticMutations, auxVars, allocVars>>

\* executeHooks calls the next listener of the snapshot; a listener that does
\* not register returns at once
Invoke ==
    /\ running.pc = "exec"
    /\ running.i <= Len(running.hooks)
    /\ running' = [running EXCEPT
                      !.invoked = Append(@, <<running.reg, running.typ, running.i>>),
                      !.pc = IF running.hooks[running.i] = "register" THEN "listener" ELSE "exec",
                      !.i = IF running.hooks[running.i] = "register" THEN @ ELSE @ + 1]
    /\ UNCHANGED <<errors, definitions, genericMappers, hooks, panicOnStaticMutations,
                   heap, metas, op, hooksMu, allowInternalLogs, allowStaticMutations, auxVars, allocVars>>

\* the listener calls On of the same registry: h.mu.Lock()
ListenerLock ==
    /\ running.pc = "listener"
    /\ hooksMu[running.reg] = RWUnlocked
    /\ hooksMu' = [hooksMu EXCEPT ![running.reg].writer = TRUE]
    /\ running' = [running EXCEPT !.pc = "locked"]
    /\ UNCHANGED <<errors, definitions, genericMappers, hooks, panicOnStaticMutations,
                   heap, metas, op, allowInternalLogs, allowStaticMutations, auxVars, allocVars>>

\* the append of On and its h.mu.Unlock(); the listener returns
ListenerAppend ==
    /\ running.pc = "locked"
    /\ hooks' = [hooks EXCEPT ![running.reg][running.typ] = Append(@, "ok")]
    /\ hooksMu' = [hooksMu EXCEPT ![running.reg].writer = FALSE]
    /\ running' = [running EXCEPT !.pc = "exec", !.i = @ + 1, !.todo = @ - 1]
    /\ UNCHANGED <<errors, definitions, genericMappers, panicOnStaticMutations,
                   heap, metas, op, allowInternalLogs, allowStaticMutations, auxVars, allocVars>>

\* the loop of executeHooks is over and run* returns
Finish ==
    /\ running.pc = "exec"
    /\ running.i > Len(running.hooks)
    /\ running' = [running EXCEPT !.pc = "done"]
    /\ UNCHANGED <<errors, definitions, genericMappers, hooks, panicOnStaticMutations,
                   heap, metas, op, hooksMu, allowInternalLogs, allowStaticMutations, auxVars, allocVars>>

\* the caller of run* goes on
RunReturn ==
    /\ running.pc = "done"
    /\ running' = NotRunning
    /\ UNCHANGED <<errors, definitions, genericMappers, hooks, panicOnStaticMutations,
                   heap, metas, op, hooksMu, allowInternalLogs, allowStaticMutations, auxVars, allocVars>>

\* On called by another goroutine: Lock, append and Unlock as one step
OnElsewhere(r, t, listener) ==
    /\ hooksMu[r] = RWUnlocked
    /\ TotalListeners + running.todo < MaxHooks
    /\ On(r, t, listener)

-----------------------------------------------------------------------------
(* Definition registry                                                     *)

\* the map of a registry after Register(err): a panic for an untrusted ID,
\* nothing for a rendered ID that is present, an insertion otherwise. A
\* write to the nil map of a zero-value Registry panics.
RegisterPanics(r, tmpl) ==
    \/ ~IsTrusted(tmpl.ID)
    \/ r = "zero" /\ String(tmpl.ID) \notin DOMAIN errors[r]

\* a Register whose later write replaces the stored template
ErrorsAfterRegisterLastWins(r, tmpl) ==
    IF RegisterPanics(r, tmpl)
    THEN errors[r]
    ELSE (String(tmpl.ID) :> tmpl) @@ [k \in DOMAIN errors[r] \ {String(tmpl.ID)} |-> errors[r][k]]

ErrorsAfterRegister(r, tmpl) ==
    IF RegisterPanics(r, tmpl) \/ String(tmpl.ID) \in DOMAIN errors[r]
    THEN errors[r]
    ELSE (String(tmpl.ID) :> tmpl) @@ errors[r]

Register(r, id, msg, sys) ==
    /\ op = NoOp
    /\ errors' = [errors EXCEPT ![r] = ErrorsAfterRegister(r, Template(id, msg, sys))]
    /\ op' = Op("Register", r, Template(id, msg, sys), RetNone,
                RegisterPanics(r, Template(id, msg, sys)), <<>>, <<>>)
    /\ UNCHANGED <<definitions, genericMappers, hooks, panicOnStaticMutations, heap, metas, allocVars, runVars>>

\* Registry.RegisterMany on the map m of registry r: Register for each
\* definition in turn; the panic of one Register ends the loop
RECURSIVE RegisterManyFrom(_, _, _, _)
RegisterManyFrom(m, r, defs, i) ==
    IF i > Len(defs) THEN [errs |-> m, aborted |-> FALSE]
    ELSE LET k == String(defs[i].ID)
         IN IF ~IsTrusted(defs[i].ID) \/ (r = "zero" /\ k \notin DOMAIN m)
            THEN [errs |-> m, aborted |-> TRUE]
            ELSE RegisterManyFrom(IF k \in DOMAIN m THEN m ELSE (k :> defs[i]) @@ m,
                                  r, defs, i + 1)

RegisterMany(r, defs) ==
    /\ op = NoOp
    /\ LET res == RegisterManyFrom(errors[r], r, defs, 1)
       IN /\ errors' = [errors EXCEPT ![r] = res.errs]
          /\ op' = Op("RegisterMany", r, defs, RetNone, res.aborted, <<>>, <<>>)
    /\ UNCHANGED <<definitions, genericMappers, hooks, panicOnStaticMutations, heap, metas, allocVars, runVars>>

\* the instance New builds from a stored template, and the creation event
\* the copy of the template's default meta: a new map when the template
\* has entries, nil otherwise
CopyMeta(meta) ==
    IF meta.kind = "ref" /\ DOMAIN metas[meta.addr] # {}
    THEN MetaCopy(metas[meta.addr])
    ELSE NilMeta

\* a New that skips the creation event
NewFromTemplateSilent(errs, r, id) ==
    LET def == errs[r][String(id)]
        err == [Instance(def.ID, def.Message, def.IsSystem, r) EXCEPT
                    !.Meta = CopyMeta(def.Meta)]
    IN [aborted |-> FALSE, invoked |-> <<>>, obj |-> err, handed |-> err]

\* a New that hands the template's map to the instance
NewFromTemplateSharingMeta(errs, r, id) ==
    LET def == errs[r][String(id)]
        run == RunHooks(r, "HookCreate")
        err == [Instance(def.ID, def.Message, def.IsSystem, r) EXCEPT !.Meta = def.Meta]
    IN [aborted |-> run.panicked, invoked |-> run.invoked, obj |-> err, handed |-> err]

NewFromTemplate(errs, r, id) ==
    LET def == errs[r][String(id)]
        run == RunHooks(r, "HookCreate")
        err == [Instance(def.ID, def.Message, def.IsSystem, r) EXCEPT
                    !.Meta = CopyMeta(def.Meta)]
    IN [aborted |-> run.panicked, invoked |-> run.invoked, obj |-> err, handed |-> err]

\* a New that panics for an ID that is not registered
NewInStrict(errs, r, id) ==
    IF IsTrusted(id) /\ String(id) \in DOMAIN errs[r]
    THEN NewFromTemplate(errs, r, id)
    ELSE [aborted |-> TRUE, invoked |-> <<>>, obj |-> NilError, handed |-> NilError]

\* Registry.New on the maps errs; an unregistered ID gives
\* New(UnregisteredError).WithArgs(id.String()) of the default registry
NewIn(errs, r, id) ==
    IF ~IsTrusted(id)
    THEN [aborted |-> TRUE, invoked |-> <<>>, obj |-> NilError, handed |-> NilError]
    ELSE IF String(id) \in DOMAIN errs[r]
    THEN NewFromTemplate(errs, r, id)
    ELSE IF String(UnregisteredError) \in DOMAIN errs["global"]
    THEN LET n == NewFromTemplate(errs, "global", UnregisteredError)
         IN [n EXCEPT !.obj.Args = <<String(id)>>]
    ELSE [aborted |-> TRUE, invoked |-> <<>>, obj |-> NilError, handed |-> NilError]

New(r, id) ==
    /\ op = NoOp
    /\ LET n == NewIn(errors, r, id)
       IN op' = [handed |-> n.handed] @@
                Op("New", r, id, IF n.aborted THEN RetNone ELSE RetFresh(n.obj),
                   n.aborted, n.invoked, <<>>)
    /\ UNCHANGED <<errors, definitions, genericMappers, hooks, panicOnStaticMutations,
                   heap, metas, allocVars, runVars>>

\* Registry.Form: the definition is written first, then Register, then the
\* form event of the default registry, then New
Form(r, id, msg, sys) ==
    /\ op = NoOp
    /\ LET tmpl == Template(id, msg, sys)
           errs == [errors EXCEPT ![r] = ErrorsAfterRegister(r, tmpl)]
           run == RunHooks("global", "HookForm")
           n == NewIn(errs, r, id)
       IN /\ definitions' = [definitions EXCEPT ![r] =
                                (id :> [DefaultMessage |-> msg, IsSystem |-> sys]) @@
                                [k \in DOMAIN @ \ {id} |-> @[k]]]
          /\ errors' = errs
          /\ op' = IF RegisterPanics(r, tmpl)
                   THEN Op("Form", r, tmpl, RetNone, TRUE, <<>>, <<>>)
                   ELSE IF run.panicked
                   THEN Op("Form", r, tmpl, RetNone, TRUE, run.invoked, <<>>)
                   ELSE Op("Form", r, tmpl, IF n.aborted THEN RetNone ELSE RetFresh(n.obj),
                           n.aborted, run.invoked \o n.invoked, <<>>)
    /\ UNCHANGED <<genericMappers, hooks, panicOnStaticMutations, heap, metas, allocVars, runVars>>

\* the caller has taken the result of the operation
Done ==
    /\ op # NoOp
    /\ op' = NoOp
    /\ UNCHANGED <<errors, definitions, genericMappers, hooks, panicOnStaticMutations,
                   heap, metas, allocVars, runVars>>

-----------------------------------------------------------------------------
(* Mapper chain                                                            *)

\* the nil *MapperList of a zero-value Registry
NilMapperList == [nil |-> TRUE, items |-> <<>>]

\* NewMapperList() and the lists built from it
MapperList(items) == [nil |-> FALSE, items |-> items]

\* the mappers of the application: what each matches, and the priority and
\* name it reports
MapperPool ==
    {[name |-> "m100", priority |-> 100, matches |-> {"e1"}],
     [name |-> "m50", priority |-> 50, matches |-> {"e1"}],
     [name |-> "m50b", priority |-> 50, matches |-> {"e1", "e2"}],
     [name |-> "skip100", priority |-> 100, matches |-> {}],
     [name |-> "forged75", priority |-> 75, matches |-> {"e2"}]}

\* the *Error a matching mapper returns: fail.New(id).Msg(...) of the
\* default registry, or for the mapper "forged75" the hand-crafted
\* &fail.Error{ID: ..., Message: ...} that belongs to no registry
MapperResult(m) ==
    IF m.name = "forged75"
    THEN Instance(ForgedA, m.name, FALSE, "none")
    ELSE [Instance(UserB, m.name, FALSE, "global") EXCEPT !.isStatic = FALSE]

\* the position in front of which Add inserts: the first element of lower
\* priority, or the end of the list
RECURSIVE InsertBeforeIndex(_, _, _)
InsertBeforeIndex(list, priority, i) ==
    IF i > Len(list) THEN Len(list) + 1
    ELSE IF priority > list[i].priority THEN i
    ELSE InsertBeforeIndex(list, priority, i + 1)

\* an Add that also goes in front of the elements of equal priority
AddBeforeEqual(list, m) ==
    LET before == {i \in 1..Len(list) : m.priority >= list[i].priority}
        k == IF before = {} THEN Len(list) + 1
             ELSE CHOOSE i \in before : \A j \in before : i <= j
    IN SubSeq(list, 1, k - 1) \o <<m>> \o SubSeq(list, k, Len(list))

\* MapperList.Add
Add(list, m) ==
    LET k == InsertBeforeIndex(list, m.priority, 1)
    IN SubSeq(list, 1, k - 1) \o <<m>> \o SubSeq(list, k, Len(list))

\* the conversion of a mapper reports a match
Matches(m, err) == err.kind = "foreign" /\ err.val \in m.matches

\* the names of the mappers from position i to the end
NamesFrom(list, i) == [k \in 1..(Len(list) - i + 1) |-> list[k + i - 1].name]

\* a walk that calls every mapper and reports no match
MapNoMatch(list, err, i, calls) ==
    [ok |-> FALSE, calls |-> calls \o NamesFrom(list, i)]

\* a walk that does not stop at the first match and returns the last one
MapLast(list, err, i, calls) ==
    LET matching == {k \in i..Len(list) : Matches(list[k], err)}
        last == CHOOSE k \in matching : \A j \in matching : j <= k
    IN IF matching = {}
       THEN [ok |-> FALSE, calls |-> calls \o NamesFrom(list, i)]
       ELSE [ok |-> TRUE, fe |-> MapperResult(list[last]), name |-> list[last].name,
             calls |-> calls \o NamesFrom(list, i)]

\* MapperList.Map: the walk from the front; calls lists the mappers invoked
RECURSIVE Map(_, _, _, _)
Map(list, err, i, calls) ==
    IF i > Len(list) THEN [ok |-> FALSE, calls |-> calls]
    ELSE IF Matches(list[i], err)
    THEN [ok |-> TRUE, fe |-> MapperResult(list[i]), name |-> list[i].name,
          calls |-> Append(calls, list[i].name)]
    ELSE Map(list, err, i + 1, Append(calls, list[i].name))

\* a call of MapperList.Map on the chain of registry r
RetMapped(fe, name) == [kind |-> "mapped", obj |-> fe, name |-> name]
RetUnmatched == [kind |-> "unmatched"]

MapCall(r, err) ==
    /\ op = NoOp
    /\ ~genericMappers[r].nil
    /\ LET m == Map(genericMappers[r].items, err, 1, <<>>)
       IN op' = Op("Map", r, err, IF m.ok THEN RetMapped(m.fe, m.name) ELSE RetUnmatched,
                   FALSE, <<>>, m.calls)
    /\ UNCHANGED <<errors, definitions, genericMappers, hooks, panicOnStaticMutations,
                   heap, metas, allocVars, runVars>>

\* Registry.RegisterMapper; the stamp "added" tells the mapper objects apart
RegisterMapper(r, m) ==
    /\ op = NoOp
    /\ IF genericMappers[r].nil
       THEN /\ op' = Op("RegisterMapper", r, m.name, RetNone, TRUE, <<>>, <<>>)
            /\ UNCHANGED genericMappers
       ELSE /\ Len(genericMappers[r].items) < MaxMappers
            /\ genericMappers' = [genericMappers EXCEPT ![r].items =
                    Add(@, [name |-> m.name, priority |-> m.priority, matches |-> m.matches,
                            added |-> Len(@) + 1])]
            /\ op' = Op("RegisterMapper", r, m.name, RetNone, FALSE, <<>>, <<>>)
    /\ UNCHANGED <<errors, definitions, hooks, panicOnStaticMutations, heap, metas, allocVars, runVars>>

\* an errors.As that finds no *Error
AsNotFound(err) == 0

\* errors.As(err, &e): the first *Error of the chain, 0 when there is none
As(err) == IF err.kind \in {"fail", "wraps"} THEN err.ptr ELSE 0

\* Error.checkStatic
checkStaticPanics(obj) ==
    obj.isStatic /\ panicOnStaticMutations[obj.registry] /\ allowRuntimePanics

\* New(id) of the default registry, its cause left unset
NewWithoutCause(id, cause) ==
    LET n == NewIn(errors, "global", id)
    IN [aborted |-> n.aborted, invoked |-> n.invoked, obj |-> n.obj]

\* New(id).With(cause) of the default registry, as From calls it
NewWith(id, cause) ==
    LET n == NewIn(errors, "global", id)
        run == RunHooks(n.obj.registry, "HookWrap")
    IN IF n.aborted THEN n
       ELSE IF checkStaticPanics(n.obj) THEN [n EXCEPT !.aborted = TRUE]
       ELSE IF n.obj.isStatic THEN n
       ELSE [aborted |-> run.panicked, invoked |-> n.invoked \o run.invoked,
             obj |-> [n.obj EXCEPT !.Cause = cause]]

\* a From that returns only the instances of its own registry unchanged and
\* sends those of other registries through the chain
FromResultOwnOnly(r, err) ==
    IF err.kind = "nil"
    THEN Op("From", r, err, RetNil, FALSE, <<>>, <<>>)
    ELSE IF As(err) # 0 /\ heap[As(err)].registry = r
    THEN Op("From", r, err, RetSame(As(err)), FALSE, <<>>, <<>>)
    ELSE IF ~genericMappers[r].nil
    THEN LET m == Map(genericMappers[r].items, err, 1, <<>>)
         IN IF m.ok
            THEN LET run == RunHooks(r, "HookFromSuccess")
                 IN Op("From", r, err, IF run.panicked THEN RetNone ELSE RetFresh(m.fe),
                       run.panicked, run.invoked, m.calls)
            ELSE LET run == RunHooks(r, "HookFromFail")
                     nw == NewWith(NotMatchedInAnyMapper, err)
                 IN IF run.panicked
                    THEN Op("From", r, err, RetNone, TRUE, run.invoked, m.calls)
                    ELSE Op("From", r, err, IF nw.aborted THEN RetNone ELSE RetFresh(nw.obj),
                            nw.aborted, run.invoked \o nw.invoked, m.calls)
    ELSE LET nw == NewWith(NoMapperRegistered, err)
             run == RunHooks(r, "HookFromFail")
         IN IF nw.aborted
            THEN Op("From", r, err, RetNone, TRUE, nw.invoked, <<>>)
            ELSE Op("From", r, err, IF run.panicked THEN RetNone ELSE RetFresh(nw.obj),
                    run.panicked, nw.invoked \o run.invoked, <<>>)

\* a From that panics when the matching mapper returns an error whose
\* identifier is not registered
FromResultStrict(r, err) ==
    LET m == Map(genericMappers[r].items, err, 1, <<>>)
    IN IF err.kind = "nil"
       THEN Op("From", r, err, RetNil, FALSE, <<>>, <<>>)
       ELSE IF As(err) # 0
       THEN Op("From", r, err, RetSame(As(err)), FALSE, <<>>, <<>>)
       ELSE IF ~genericMappers[r].nil /\ m.ok /\ ~IsRegistered(m.fe.ID)
       THEN Op("From", r, err, RetNone, TRUE, <<>>, m.calls)
       ELSE FromResultOwnOnly(r, err)

\* Registry.From
FromResult(r, err) ==
    IF err.kind = "nil"
    THEN Op("From", r, err, RetNil, FALSE, <<>>, <<>>)
    ELSE IF As(err) # 0
    THEN Op("From", r, err, RetSame(As(err)), FALSE, <<>>, <<>>)
    ELSE IF ~genericMappers[r].nil
    THEN LET m == Map(genericMappers[r].items, err, 1, <<>>)
         IN IF m.ok
            THEN LET run == RunHooks(r, "HookFromSuccess")
                 IN Op("From", r, err, IF run.panicked THEN RetNone ELSE RetFresh(m.fe),
                       run.panicked, run.invoked, m.calls)
            ELSE LET run == RunHooks(r, "HookFromFail")
                     nw == NewWith(NotMatchedInAnyMapper, err)
                 IN IF run.panicked
                    THEN Op("From", r, err, RetNone, TRUE, run.invoked, m.calls)
                    ELSE Op("From", r, err, IF nw.aborted THEN RetNone ELSE RetFresh(nw.obj),
                            nw.aborted, run.invoked \o nw.invoked, m.calls)
    ELSE LET nw == NewWith(NoMapperRegistered, err)
             run == RunHooks(r, "HookFromFail")
         IN IF nw.aborted
            THEN Op("From", r, err, RetNone, TRUE, nw.invoked, <<>>)
            ELSE Op("From", r, err, IF run.panicked THEN RetNone ELSE RetFresh(nw.obj),
                    run.panicked, nw.invoked \o run.invoked, <<>>)

\* Error.IsRegistered, as From calls it on the result of a mapper: the
\* error carries an identifier that an allocator produced
ErrorIsRegistered(fe) == IsRegistered(fe.ID)

\* the lines From writes with log.Printf, in order
FromLogs(r, err) ==
    IF err.kind = "nil" THEN <<>>
    ELSE IF As(err) # 0
    THEN IF heap[As(err)].registry # r /\ allowInternalLogs[r]
         THEN <<"different registry">> ELSE <<>>
    ELSE IF ~genericMappers[r].nil
    THEN LET m == Map(genericMappers[r].items, err, 1, <<>>)
         IN IF m.ok
            THEN IF ~ErrorIsRegistered(m.fe) /\ allowInternalLogs[r]
                 THEN <<"unregistered error">> ELSE <<>>
            ELSE IF allowInternalLogs[r] THEN <<"no mapper matched">> ELSE <<>>
    ELSE IF allowInternalLogs[r] THEN <<"no mappers registered">> ELSE <<>>

From(r, err) ==
    /\ op = NoOp
    /\ op' = [logged |-> FromLogs(r, err)] @@ FromResult(r, err)
    /\ UNCHANGED <<errors, definitions, genericMappers, hooks, panicOnStaticMutations,
                   heap, metas, allocVars, runVars>>

\* a listener of the form event has stored the template it was called with
\* (tmpl of Registry.Form, which carries isStatic) and the application holds
\* it from now on; followed for the templates of static identifiers
KeepTemplate ==
    /\ op # NoOp
    /\ op.name = "Form"
    /\ IsStatic(op.arg.ID)
    /\ \E i \in 1..Len(op.invoked) : op.invoked[i][2] = "HookForm"
    /\ Len(heap) < MaxHeap
    /\ heap' = Append(heap, [Instance(op.arg.ID, op.arg.Message, op.arg.IsSystem, op.reg)
                                EXCEPT !.isStatic = IsStatic(op.arg.ID)])
    /\ op' = NoOp
    /\ UNCHANGED <<errors, definitions, genericMappers, hooks, panicOnStaticMutations,
                   metas, allocVars, runVars>>

\* the caller keeps the *Error it was given
Keep ==
    /\ op # NoOp
    /\ op.ret.kind = "fresh"
    /\ Len(heap) < MaxHeap
    /\ IF op.ret.obj.Meta.kind = "copy"
       THEN /\ metas' = Append(metas, op.ret.obj.Meta.entries)
            /\ heap' = Append(heap, [op.ret.obj EXCEPT !.Meta = MetaRef(Len(metas) + 1)])
       ELSE /\ metas' = metas
            /\ heap' = Append(heap, op.ret.obj)
    /\ op' = NoOp
    /\ UNCHANGED <<errors, definitions, genericMappers, hooks, panicOnStaticMutations,
                   allocVars, runVars>>

\* Error.checkStatic returns true without a panic: the builder does nothing
checkStaticIgnores(obj) == obj.isStatic /\ ~checkStaticPanics(obj)

\* a builder call on the instance at address p: the panic of checkStatic,
\* the instance returned untouched, or the instance changed to e
Builder(name, p, e, ms, invoked) ==
    /\ op = NoOp
    /\ p \in 1..Len(heap)
    /\ IF checkStaticPanics(heap[p])
       THEN /\ op' = Op(name, heap[p].registry, p, RetNone, TRUE, <<>>, <<>>)
            /\ UNCHANGED <<heap, metas>>
       ELSE IF checkStaticIgnores(heap[p])
       THEN /\ op' = Op(name, heap[p].registry, p, RetSame(p), FALSE, <<>>, <<>>)
            /\ UNCHANGED <<heap, metas>>
       ELSE /\ op' = Op(name, heap[p].registry, p, RetSame(p), FALSE, invoked, <<>>)
            /\ heap' = [heap EXCEPT ![p] = e]
            /\ metas' = ms
    /\ UNCHANGED <<errors, definitions, genericMappers, hooks, panicOnStaticMutations,
                   allocVars, runVars>>

\* Error.Msg
Msg(p, msg) == Builder("Msg", p, [heap[p] EXCEPT !.Message = msg], metas, <<>>)

\* Error.With, which runs the wrap event of the instance's registry
With(p, cause) ==
    Builder("With", p, [heap[p] EXCEPT !.Cause = cause], metas,
            RunHooks(heap[p].registry, "HookWrap").invoked)

\* Error.AddMeta: the map is made when Meta is nil, then the entry is set
AddMeta(p, k, v) ==
    IF heap[p].Meta.kind = "ref"
    THEN Builder("AddMeta", p, heap[p],
                 [metas EXCEPT ![heap[p].Meta.addr] = (k :> v) @@ @], <<>>)
    ELSE Builder("AddMeta", p, [heap[p] EXCEPT !.Meta = MetaRef(Len(metas) + 1)],
                 Append(metas, k :> v), <<>>)

\* Registry.AllowStaticMutations: allow clears the panic flag, otherwise
\* shouldPanic becomes the flag. The field allowStaticMutations it writes as
\* well is read by no function of the library.
AllowStaticMutations(r, allow, shouldPanic) ==
    /\ op = NoOp
    /\ panicOnStaticMutations' =
           [panicOnStaticMutations EXCEPT ![r] = IF allow THEN FALSE ELSE shouldPanic]
    /\ allowStaticMutations' = [allowStaticMutations EXCEPT ![r] = allow]
    /\ op' = Op("AllowStaticMutations", r, <<allow, shouldPanic>>, RetNone, FALSE, <<>>, <<>>)
    /\ UNCHANGED <<errors, definitions, genericMappers, hooks, heap, metas, hooksMu, running,
                   allowInternalLogs, auxVars, registeredIDs, numberIndex, mu, allocFlags,
                   result, threads>>

\* Registry.AllowInternalLogs
AllowInternalLogs(r, allow) ==
    /\ op = NoOp
    /\ allowInternalLogs' = [allowInternalLogs EXCEPT ![r] = allow]
    /\ op' = Op("AllowInternalLogs", r, allow, RetNone, FALSE, <<>>, <<>>)
    /\ UNCHANGED <<errors, definitions, genericMappers, hooks, panicOnStaticMutations,
                   heap, metas, hooksMu, running, allowStaticMutations, auxVars, allocVars>>

\* the package function AllowRuntimePanics
AllowRuntimePanics(allow) ==
    /\ op = NoOp
    /\ allowRuntimePanics' = allow
    /\ op' = Op("AllowRuntimePanics", "global", allow, RetNone, FALSE, <<>>, <<>>)
    /\ UNCHANGED <<errors, definitions, genericMappers, hooks, panicOnStaticMutations,
                   heap, metas, runVars, registeredIDs, numberIndex, mu,
                   allowRuntimeRegistration, idAllowRuntimePanics, result, threads>>

\* the error values a caller can pass to From
ErrorInputs ==
    {NilError} \cup {Foreign(v) : v \in ForeignErrors}
        \cup {FailPtr(p) : p \in 1..Len(heap)} \cup {Wraps(p) : p \in 1..Len(heap)}

\* Is(err, id): the first *Error of the chain renders like id
Is(err, id) == As(err) # 0 /\ String(heap[As(err)].ID) = String(id)

\* Match(err).Case(id, handler) on a fresh matcher: the handler is called
\* with the *Error when Is and As succeed; no function of Hooks is called
Case(err, id) ==
    /\ op = NoOp
    /\ op' = [handled |-> Is(err, id)] @@
             Op("Case", IF As(err) # 0 THEN heap[As(err)].registry ELSE "global", err,
                RetNone, FALSE, <<>>, <<>>)
    /\ UNCHANGED <<errors, definitions, genericMappers, hooks, panicOnStaticMutations,
                   heap, metas, allocVars, runVars>>

-----------------------------------------------------------------------------
(* Initial states                                                          *)

\* the templates of the library's own identifiers, registered by Form at
\* package initialisation in the default registry
SentinelTemplates ==
    (String(UnregisteredError) :>
        Template(UnregisteredError, "error with ID(%s) is not registered in the registry", TRUE))
    @@ (String(NotMatchedInAnyMapper) :>
        Template(NotMatchedInAnyMapper, "error wasn't matched/mapped by any mapper", TRUE))
    @@ (String(NoMapperRegistered) :>
        Template(NoMapperRegistered, "no mapper is registered in the registry", TRUE))

-----------------------------------------------------------------------------
(* The error group (ErrorGroup): a slice of errors behind a sync.RWMutex.   *)
(* Every goroutine makes one call; the calls are taken one lock operation   *)
(* or one memory access at a time.                                          *)

\* the goroutines that share the group
Goroutines == 1..(NumThreads + 1)

\* the errors handed to Add, nil among them
GroupErrors == {"nil", "e1", "e2"}

\* NewErrorGroup: no errors, and a mutex nobody holds. readers counts the read
\* locks held; w is the goroutine that holds the writer lock rw.w, from the moment
\* it announces itself until Unlock
NewErrorGroup == [errors |-> <<>>, mu |-> [readers |-> 0, w |-> 0]]

IdleGoroutine == [pc |-> "idle", fn |-> "", err |-> "nil", local |-> <<>>, count |-> 0]

\* From as Add sees it: the *Error made of a non-nil error
GroupFrom(err) == [from |-> err]

\* a goroutine calls a method of the group
ErrorGroupCall(t, fn, err) ==
    /\ goroutines[t].pc = "idle"
    /\ goroutines' = [goroutines EXCEPT ![t] = [IdleGoroutine EXCEPT !.pc = "called",
                                                                      !.fn = fn, !.err = err]]
    /\ UNCHANGED <<group, exceptGroup>>

GroupUnchanged == UNCHANGED exceptGroup

\* the position of goroutine t moves on
GroupGoto(t, pc) == goroutines' = [goroutines EXCEPT ![t].pc = pc]

\* RWMutex.Lock takes rw.w when no other writer has it
WriterLockAlwaysFree == TRUE

WriterLockFree == group.mu.w = 0

\* RWMutex.RLock goes through unless a writer has announced itself
RLockFree == group.mu.w = 0

\* Add(nil) returns the group at once
ErrorGroupAddNil(t) ==
    /\ goroutines[t].pc = "called" /\ goroutines[t].fn = "Add"
    /\ goroutines[t].err = "nil"
    /\ GroupGoto(t, "done")
    /\ UNCHANGED group
    /\ GroupUnchanged

\* g.mu.Lock() of Add and Reset, first half: take rw.w and announce the writer
ErrorGroupLock(t) ==
    /\ goroutines[t].pc = "called" /\ goroutines[t].fn \in {"Add", "Reset"}
    /\ goroutines[t].fn = "Add" => goroutines[t].err # "nil"
    /\ WriterLockFree
    /\ group' = [group EXCEPT !.mu.w = t]
    /\ GroupGoto(t, "Lock")
    /\ GroupUnchanged

\* g.mu.Lock(), second half: the writer goes on when the last reader has left
ErrorGroupLocked(t) ==
    /\ goroutines[t].pc = "Lock"
    /\ group.mu.readers = 0
    /\ GroupGoto(t, "locked")
    /\ UNCHANGED group
    /\ GroupUnchanged

\* Add, e := From(err) and the read of g.errors that append makes
ErrorGroupAddRead(t) ==
    /\ goroutines[t].pc = "locked" /\ goroutines[t].fn = "Add"
    /\ goroutines' = [goroutines EXCEPT ![t].pc = "append", ![t].local = group.errors]
    /\ UNCHANGED group
    /\ GroupUnchanged

\* Add, g.errors = append(g.errors, e)
ErrorGroupAddWrite(t) ==
    /\ goroutines[t].pc = "append"
    /\ group' = [group EXCEPT !.errors = Append(goroutines[t].local,
                                                GroupFrom(goroutines[t].err))]
    /\ GroupGoto(t, "unlock")
    /\ GroupUnchanged

\* Reset, g.errors = g.errors[:0]
ErrorGroupResetClear(t) ==
    /\ goroutines[t].pc = "locked" /\ goroutines[t].fn = "Reset"
    /\ group' = [group EXCEPT !.errors = <<>>]
    /\ GroupGoto(t, "unlock")
    /\ GroupUnchanged

\* the deferred g.mu.Unlock() of Add and Reset, and their return
ErrorGroupUnlock(t) ==
    /\ goroutines[t].pc = "unlock"
    /\ group' = [group EXCEPT !.mu.w = 0]
    /\ GroupGoto(t, "done")
    /\ GroupUnchanged

\* g.mu.RLock() of Len, First and Error, from the position of the caller
ErrorGroupRLock(t, fn, from, to) ==
    /\ goroutines[t].pc = from /\ goroutines[t].fn = fn
    /\ RLockFree
    /\ group' = [group EXCEPT !.mu.readers = @ + 1]
    /\ GroupGoto(t, to)
    /\ GroupUnchanged

\* return len(g.errors) and the deferred RUnlock of Len, called by the application
\* (from "Len") or by Error at count := g.Len() (from "Error.Len")
ErrorGroupLenReturn(t, from, to) ==
    /\ goroutines[t].pc = from
    /\ group' = [group EXCEPT !.mu.readers = @ - 1]
    /\ goroutines' = [goroutines EXCEPT ![t].pc = to, ![t].count = Len(group.errors)]
    /\ GroupUnchanged

\* Error: First returns the first error, or nil, and RUnlocks
ErrorGroupFirstReturn(t) ==
    /\ goroutines[t].pc = "Error.First"
    /\ group' = [group EXCEPT !.mu.readers = @ - 1]
    /\ goroutines' = [goroutines EXCEPT ![t].pc = "Error.return",
                                        ![t].local = SubSeq(group.errors, 1, 1)]
    /\ GroupUnchanged

\* Error returns, "no errors" straight from the switch when count is 0, and its
\* deferred RUnlock runs
ErrorGroupErrorReturn(t) ==
    /\ goroutines[t].pc = IF goroutines[t].count = 0 THEN "Error.switch" ELSE "Error.return"
    /\ goroutines[t].fn = "Error"
    /\ group' = [group EXCEPT !.mu.readers = @ - 1]
    /\ GroupGoto(t, "done")
    /\ GroupUnchanged

-----------------------------------------------------------------------------
(* The error chain (ErrorChain): steps run while no error is held           *)

\* the errors a step function returns, nil among them
StepErrors == {"nil", "boom"}

\* the step names given to ThenCtx and ThenCtxIf
StepNames == {"database"}

\* what the function given to Catch returns: nil, the error it was given with
\* another message, or that error as it is
CatchReturns == {"nil", "caught", "same"}

\* &ErrorChain{}
NewChain == [err |-> NilError, step |-> 0]

\* From(err).MergeMeta(data) of a step's error: the canonical error with the
\* step's error as cause and the data in its Meta
ChainFrom(err, data) == [cause |-> err, meta |-> data, message |-> ""]

\* Then on a chain that holds an error returns it without calling fn
ThenAlwaysCalls(c) == FALSE

ThenReturnsEarly(c) == c.err # NilError

\* Then: the chain after the call, and whether fn was called
Then(c, ret) ==
    IF ThenReturnsEarly(c) THEN [chain |-> c, ran |-> FALSE]
    ELSE IF ret # "nil"
         THEN [chain |-> [c EXCEPT !.err = ChainFrom(ret, [chain_step_index |-> c.step])],
               ran |-> TRUE]
         ELSE [chain |-> [c EXCEPT !.step = @ + 1], ran |-> TRUE]

\* ThenCtx: as Then, with the name of the step in the Meta
ThenCtx(c, stepName, ret) ==
    IF ThenReturnsEarly(c) THEN [chain |-> c, ran |-> FALSE]
    ELSE IF ret # "nil"
         THEN [chain |-> [c EXCEPT !.err = ChainFrom(ret, [chain_step |-> stepName,
                                                          chain_step_index |-> c.step])],
               ran |-> TRUE]
         ELSE [chain |-> [c EXCEPT !.step = @ + 1], ran |-> TRUE]

\* ThenIf
ThenIf(c, condition, ret) ==
    IF ~condition \/ c.err # NilError THEN [chain |-> c, ran |-> FALSE] ELSE Then(c, ret)

\* ThenCtxIf
ThenCtxIf(c, condition, stepName, ret) ==
    IF ~condition \/ c.err # NilError THEN [chain |-> c, ran |-> FALSE]
    ELSE ThenCtx(c, stepName, ret)

\* the function given to Catch, applied to the error of the chain
CatchFn(e, ret) ==
    CASE ret = "nil" -> NilError
      [] ret = "caught" -> [e EXCEPT !.message = "caught"]
      [] OTHER -> e

\* Catch: c.err = fn(c.err) when the chain holds an error
Catch(c, ret) ==
    IF c.err # NilError THEN [chain |-> [c EXCEPT !.err = CatchFn(c.err, ret)], ran |-> TRUE]
    ELSE [chain |-> c, ran |-> FALSE]

\* a call on the chain has returned: the chain is as the method left it and the
\* call is noted with what its function returned when it ran
ChainReturn(fn, ret, r) ==
    /\ Len(steps) < MaxChain
    /\ chain' = r.chain
    /\ steps' = Append(steps, [fn |-> fn, ran |-> r.ran, ret |-> ret, step |-> r.chain.step])
    /\ UNCHANGED exceptChain

-----------------------------------------------------------------------------
(* Retry, RetryCFG, RetryValue and RetryValueCFG: one loop over the attempts *)

\* init stores MaxAttempts: 5 and ShouldRetry: IsRetryableDefault
DefaultMaxAttempts == 5

DefaultRetryConfig == [MaxAttempts |-> DefaultMaxAttempts, ShouldRetry |-> "IsRetryableDefault"]

\* the configurations a caller passes: MaxAttempts from -1 up, ShouldRetry nil or a
\* function that retries every error
RetryConfigs ==
    [MaxAttempts : (0 - 1)..MaxAttempts, ShouldRetry : {"nil", "always"}]

\* what an attempt returns: nil, a canonical error with Meta["retryable"] = true,
\* a canonical error without it, or an error that holds no canonical error
AttemptErrors == {"nil", "retryable", "plain", "foreign"}

RetryFns == {"Retry", "RetryCFG", "RetryValue", "RetryValueCFG"}

IdleRetry ==
    [pc |-> "idle", fn |-> "", config |-> DefaultRetryConfig, cfg |-> DefaultRetryConfig,
     i |-> 0, lastErr |-> "nil", calls |-> <<>>, ret |-> [v |-> "", err |-> "nil"]]

\* normalizeConfig, and the same two tests in SetRetryConfig
normalizeConfigAsGiven(c) == c

normalizeConfig(c) ==
    [MaxAttempts |-> IF c.MaxAttempts <= 0 THEN 1 ELSE c.MaxAttempts,
     ShouldRetry |-> IF c.ShouldRetry = "nil" THEN "IsRetryableDefault" ELSE c.ShouldRetry]

\* As(err) finds a canonical error
RetryAs(err) == err \in {"retryable", "plain"}

\* IsRetryableDefault
IsRetryableDefault(err) == err = "retryable"

\* cfg.ShouldRetry(e)
ShouldRetry(cfg, e) ==
    IF cfg.ShouldRetry = "IsRetryableDefault" THEN IsRetryableDefault(e) ELSE TRUE

\* SetRetryConfig
SetRetryConfig(config) ==
    /\ retryConfig' = normalizeConfig(config)
    /\ UNCHANGED <<retry, exceptRetry>>

\* one of the four functions is called: Retry and RetryValue load the package
\* configuration, RetryCFG and RetryValueCFG normalize the one they are given
RetryCall(fn, config) ==
    /\ retry.pc = "idle"
    /\ retry' = [IdleRetry EXCEPT !.pc = "loop", !.fn = fn, !.config = config,
                                  !.cfg = IF fn \in {"Retry", "RetryValue"} THEN retryConfig
                                          ELSE normalizeConfig(config)]
    /\ UNCHANGED <<retryConfig, exceptRetry>>

\* the zero value or the value of fn, for the two functions that return one
RetryValueOf(fn, v) == IF fn \in {"RetryValue", "RetryValueCFG"} THEN v ELSE ""

\* one pass of the loop: fn is called and returns err
RetryAttempt(err) ==
    /\ retry.pc = "loop"
    /\ retry.i < retry.cfg.MaxAttempts
    /\ retry' =
           IF err = "nil"
           THEN [retry EXCEPT !.calls = Append(@, err), !.pc = "done",
                              !.ret = [v |-> RetryValueOf(retry.fn, "v"), err |-> "nil"]]
           ELSE IF RetryAs(err) /\ ShouldRetry(retry.cfg, err)
                THEN [retry EXCEPT !.calls = Append(@, err), !.lastErr = err, !.i = @ + 1]
                ELSE [retry EXCEPT !.calls = Append(@, err), !.lastErr = err, !.pc = "done",
                                   !.ret = [v |-> RetryValueOf(retry.fn, "zero"), err |-> err]]
    /\ UNCHANGED <<retryConfig, exceptRetry>>

\* the loop ends after the last attempt: return lastErr
RetryExhausted ==
    /\ retry.pc = "loop"
    /\ ~(retry.i < retry.cfg.MaxAttempts)
    /\ retry' = [retry EXCEPT !.pc = "done",
                              !.ret = [v |-> RetryValueOf(retry.fn, "zero"),
                                       err |-> retry.lastErr]]
    /\ UNCHANGED <<retryConfig, exceptRetry>>

\* the caller has the result and may call again
RetryDone ==
    /\ retry.pc = "done"
    /\ retry' = IdleRetry
    /\ UNCHANGED <<retryConfig, exceptRetry>>

-----------------------------------------------------------------------------
(* From and RegisterMapper of the registry "custom", one lock operation at  *)
(* a time: MapperList.Map calls the mappers under the read lock of the list *)

\* mappers whose conversion function calls back into the registry: "registers"
\* calls RegisterMapper of the same registry, "reenters" calls its From
CallingMappers ==
    {[name |-> "plain", priority |-> 0, matches |-> {"e1"}, calls |-> "none"],
     [name |-> "registers", priority |-> 10, matches |-> {}, calls |-> "RegisterMapper"],
     [name |-> "reenters", priority |-> 5, matches |-> {}, calls |-> "From"]}

\* the mapper that the conversion function of "registers" adds
AddedByMapper == [name |-> "late", priority |-> 1, matches |-> {}, calls |-> "none"]

IdleCaller == [pc |-> "idle", fn |-> "", err |-> NilError, m |-> AddedByMapper, i |-> 0,
               ret |-> "done"]

\* the goroutine goes on to the given position
CallerGoto(t, pc) == callers' = [callers EXCEPT ![t].pc = pc]

\* the list of the registry
ChainItems == genericMappers["custom"].items

\* Registry.From with an error that holds no canonical error: on to Map
CallFrom(t, err) ==
    /\ callers[t].pc = "idle"
    /\ callers' = [callers EXCEPT ![t] = [IdleCaller EXCEPT !.pc = "Map", !.fn = "From",
                                                            !.err = err]]
    /\ UNCHANGED <<mapperMu, registryMu, genericMappers, exceptMappers>>

\* Registry.RegisterMapper is called by the application
CallRegisterMapper(t, m) ==
    /\ callers[t].pc = "idle"
    /\ callers' = [callers EXCEPT ![t] = [IdleCaller EXCEPT !.pc = "RegisterMapper",
                                                            !.fn = "RegisterMapper", !.m = m]]
    /\ UNCHANGED <<mapperMu, registryMu, genericMappers, exceptMappers>>

\* Map: ml.mu.RLock(), which waits while a writer has announced itself
MapRLock(t) ==
    /\ callers[t].pc = "Map"
    /\ mapperMu.w = 0
    /\ mapperMu' = [mapperMu EXCEPT !.readers = @ + 1]
    /\ callers' = [callers EXCEPT ![t].pc = "walk", ![t].i = 1]
    /\ UNCHANGED <<registryMu, genericMappers, exceptMappers>>

\* Map: the next mapper is called and returns; a match ends the walk
MapNext(t) ==
    /\ callers[t].pc = "walk"
    /\ callers[t].i <= Len(ChainItems)
    /\ ChainItems[callers[t].i].calls = "none"
    /\ callers' = IF Matches(ChainItems[callers[t].i], callers[t].err)
                  THEN [callers EXCEPT ![t].pc = "RUnlock"]
                  ELSE [callers EXCEPT ![t].i = @ + 1]
    /\ UNCHANGED <<mapperMu, registryMu, genericMappers, exceptMappers>>

\* Map: the end of the list, no mapper matched
MapEnd(t) ==
    /\ callers[t].pc = "walk"
    /\ callers[t].i > Len(ChainItems)
    /\ CallerGoto(t, "RUnlock")
    /\ UNCHANGED <<mapperMu, registryMu, genericMappers, exceptMappers>>

\* Map: the conversion function of the next mapper calls RegisterMapper of the
\* registry; when that returns the walk goes on
MapperCallsRegisterMapper(t) ==
    /\ callers[t].pc = "walk"
    /\ callers[t].i <= Len(ChainItems)
    /\ ChainItems[callers[t].i].calls = "RegisterMapper"
    /\ callers' = [callers EXCEPT ![t].pc = "RegisterMapper", ![t].m = AddedByMapper,
                                  ![t].ret = "walk"]
    /\ UNCHANGED <<mapperMu, registryMu, genericMappers, exceptMappers>>

\* Map: the conversion function of the next mapper calls From of the registry
MapperCallsFrom(t) ==
    /\ callers[t].pc = "walk"
    /\ callers[t].i <= Len(ChainItems)
    /\ ChainItems[callers[t].i].calls = "From"
    /\ CallerGoto(t, "From.Map")
    /\ UNCHANGED <<mapperMu, registryMu, genericMappers, exceptMappers>>

\* the inner From: ml.mu.RLock() of its Map
InnerMapRLock(t) ==
    /\ callers[t].pc = "From.Map"
    /\ mapperMu.w = 0
    /\ mapperMu' = [mapperMu EXCEPT !.readers = @ + 1]
    /\ CallerGoto(t, "From.walk")
    /\ UNCHANGED <<registryMu, genericMappers, exceptMappers>>

\* the inner From: its walk (the error it is given makes no mapper call back)
\* and its RUnlock; the outer conversion function then reports no match
InnerMapReturn(t) ==
    /\ callers[t].pc = "From.walk"
    /\ mapperMu' = [mapperMu EXCEPT !.readers = @ - 1]
    /\ callers' = [callers EXCEPT ![t].pc = "walk", ![t].i = @ + 1]
    /\ UNCHANGED <<registryMu, genericMappers, exceptMappers>>

\* Map: the deferred ml.mu.RUnlock(); From goes on without a lock and returns
MapRUnlock(t) ==
    /\ callers[t].pc = "RUnlock"
    /\ mapperMu' = [mapperMu EXCEPT !.readers = @ - 1]
    /\ CallerGoto(t, "done")
    /\ UNCHANGED <<registryMu, genericMappers, exceptMappers>>

\* RegisterMapper: r.mu.Lock()
RegistryLock(t) ==
    /\ callers[t].pc = "RegisterMapper"
    /\ registryMu = 0
    /\ registryMu' = t
    /\ CallerGoto(t, "Add")
    /\ UNCHANGED <<mapperMu, genericMappers, exceptMappers>>

\* Add: ml.mu.Lock(), first half: the writer announces itself
AddLock(t) ==
    /\ callers[t].pc = "Add"
    /\ mapperMu.w = 0
    /\ mapperMu' = [mapperMu EXCEPT !.w = t]
    /\ CallerGoto(t, "Add.Lock")
    /\ UNCHANGED <<registryMu, genericMappers, exceptMappers>>

\* Add: ml.mu.Lock(), second half, when the last reader has left, and the insertion
AddInsert(t) ==
    /\ callers[t].pc = "Add.Lock"
    /\ mapperMu.readers = 0
    /\ genericMappers' = [genericMappers EXCEPT !["custom"].items = Add(@, callers[t].m)]
    /\ CallerGoto(t, "Add.Unlock")
    /\ UNCHANGED <<mapperMu, registryMu, exceptMappers>>

\* the deferred ml.mu.Unlock() of Add and r.mu.Unlock() of RegisterMapper
AddUnlock(t) ==
    /\ callers[t].pc = "Add.Unlock"
    /\ mapperMu' = [mapperMu EXCEPT !.w = 0]
    /\ registryMu' = 0
    /\ callers' = IF callers[t].ret = "walk"
                  THEN [callers EXCEPT ![t].pc = "walk", ![t].i = @ + 1]
                  ELSE [callers EXCEPT ![t].pc = "done"]
    /\ UNCHANGED <<genericMappers, exceptMappers>>

InitAux ==
    /\ group = NewErrorGroup
    /\ goroutines = [t \in Goroutines |-> IdleGoroutine]
    /\ chain = NewChain
    /\ steps = <<>>
    /\ retryConfig = DefaultRetryConfig
    /\ retry = IdleRetry
    /\ mapperMu = [readers |-> 0, w |-> 0]
    /\ registryMu = 0
    /\ callers = [t \in Goroutines |-> IdleCaller]

NoHooks == [t \in HookTypes |-> <<>>]

InitRegistryMeta(hks, errs, maps, ms) ==
    /\ errors = errs
    /\ definitions = [r \in Registries |-> <<>>]
    /\ genericMappers = maps
    /\ hooks = hks
    /\ panicOnStaticMutations = [r \in Registries |-> FALSE]
    /\ heap = <<>>
    /\ metas = ms
    /\ op = NoOp
    /\ hooksMu = [r \in Registries |-> RWUnlocked]
    /\ running = NotRunning
    /\ allowInternalLogs = [r \in Registries |-> FALSE]
    /\ allowStaticMutations = [r \in Registries |-> FALSE]
    /\ InitAux

InitRegistryWith(hks, errs, maps) == InitRegistryMeta(hks, errs, maps, <<>>)

NoMappers == [r \in Registries |-> IF r = "zero" THEN NilMapperList ELSE MapperList(<<>>)]

InitRegistry ==
    InitRegistryWith([r \in Registries |-> NoHooks],
                     [r \in Registries |-> IF r = "global" THEN SentinelTemplates ELSE <<>>],
                     NoMappers)

Threads == 1..NumThreads

IdleThread == [pc |-> "idle", call |-> NoCall, verdict |-> "", insertAfter |-> 0]

InitAlloc ==
    /\ threads = [t \in Threads |-> IdleThread]
    /\ registeredIDs = <<>>
    /\ numberIndex = <<>>
    /\ mu = 0
    /\ allowRuntimeRegistration = FALSE
    /\ idAllowRuntimePanics = "nil"
    /\ allowRuntimePanics = FALSE
    /\ result = NoCall

Init == InitAlloc /\ InitRegistry

CallID ==
    \E level \in Levels, domain \in Domains, number \in Numbers, static \in BOOLEAN,
       name \in Names, beforeMain \in BOOLEAN :
        ID(level, domain, number, static, name, beforeMain)

CallInternalID ==
    \E level \in Levels, number \in Numbers, static \in BOOLEAN, name \in Names :
        internalID(level, number, static, name)

\* the caller takes the returned ErrorID (or recovers the panic) and goes on
Return ==
    /\ result # NoCall
    /\ result' = NoCall
    /\ UNCHANGED <<registeredIDs, numberIndex, mu, allocFlags, threads, regVars>>

Next ==
    \/ CallID
    \/ CallInternalID
    \/ Return

Spec == Init /\ [][Next]_vars

-----------------------------------------------------------------------------
(* Allocations of one category under names that are 1, 3, 4 and more edits *)
(* apart                                                                   *)

SimNames == {NameAa, NameAb, NameAx, NameAy, NameAs, NameAt}
SimNumbers == 0..(MaxNumber - 2)

NextNames ==
    \/ \E number \in SimNumbers, static \in BOOLEAN, name \in SimNames :
           ID(0, DomA, number, static, name, TRUE)
    \/ Return

SpecNames == Init /\ [][NextNames]_vars

-----------------------------------------------------------------------------
(* Calls of ID before and after main under every setting of the override   *)
(* and of the two panic flags                                              *)

GuardNames == {NameAa, NameAb}
GuardNumbers == {0, 1}

NextGuard ==
    \/ \E number \in GuardNumbers, static \in BOOLEAN, name \in GuardNames,
          beforeMain \in BOOLEAN :
           ID(0, DomA, number, static, name, beforeMain)
    \/ \E allow \in BOOLEAN : OverrideAllowIDRuntimeRegistrationForTestingOnly(allow)
    \/ \E allow \in BOOLEAN : OverrideAllowRuntimePanics(allow)
    \/ \E allow \in BOOLEAN : AllowRuntimePanics(allow)
    \/ Return
    \/ Done

SpecGuard == Init /\ [][NextGuard]_vars

-----------------------------------------------------------------------------
(* Allocations in two categories, one a prefix of the other, so that a     *)
(* name is admissible in both                                              *)

DetDomains == {DomA, DomB}
DetNames == {NameAa, NameAb, NameAz, NameAw}
DetNumbers == {0, 1}

NextDet ==
    \/ \E domain \in DetDomains, number \in DetNumbers, static \in BOOLEAN, name \in DetNames :
           ID(0, domain, number, static, name, TRUE)
    \/ Return

SpecDet == Init /\ [][NextDet]_vars

-----------------------------------------------------------------------------
(* Allocations in three categories followed by the read-only operations    *)
(* of the allocator                                                        *)

ReadNames == {NameAa, NameAb, NameAw, NameFx}
ReadNumbers == (0 - 1)..1

NextRead ==
    \/ \E domain \in DetDomains, number \in ReadNumbers, static \in BOOLEAN, name \in ReadNames :
           ID(0, domain, number, static, name, TRUE)
    \/ \E static \in BOOLEAN : internalID(0, 0, static, NameFx)
    \/ GetAllIDs
    \/ ExportIDList
    \/ Return

SpecRead == Init /\ [][NextRead]_vars

-----------------------------------------------------------------------------
(* Allocations followed by ValidateIDs                                     *)

ValidateDomains == {DomA, DomSp}
ValidateNames == {NameAa, NameAb, NameSp}
ValidateNumbers == (0 - 1)..2

NextValidate ==
    \/ \E domain \in ValidateDomains, number \in ValidateNumbers, static \in BOOLEAN,
          name \in ValidateNames : ID(0, domain, number, static, name, TRUE)
    \/ ValidateIDs
    \/ Return

SpecValidate == Init /\ [][NextValidate]_vars

-----------------------------------------------------------------------------
(* The allocator called from several goroutines: the steps of one call     *)

Request(fn, level, domain, number, static, name, beforeMain) ==
    [op |-> fn, level |-> level, domain |-> domain, number |-> number,
     static |-> static, name |-> name, beforeMain |-> beforeMain]

\* the calls the goroutines make: two names and two numbers of one group, so
\* that calls race for the same name and for the same number
ConcNames == {NameAa, NameAb}
ConcNumbers == {0, 1}

ConcRequests ==
    {Request("ID", 0, DomA, n, TRUE, nm, TRUE) : n \in ConcNumbers, nm \in ConcNames}
        \cup {Request("ID", 0, DomA, 0, TRUE, NameAa, FALSE)}
        \cup {Request("internalID", 0, reservedDomain, 0, TRUE, NameFx, TRUE)}

\* ID: the first critical section reads allowRuntimeRegistration, then the
\* run-time guard decides; internalID goes straight to its critical section
ConcEnter(t, call) ==
    /\ threads[t].pc = "idle"
    /\ call.op = "ID" => MutexFree
    /\ threads' = [threads EXCEPT ![t] =
            [pc |-> IF call.op = "ID" /\ ~call.beforeMain /\ ~allowRuntimeRegistration
                    THEN "misuse" ELSE "enter",
             call |-> call, verdict |-> "", insertAfter |-> 0]]
    /\ UNCHANGED <<registeredIDs, numberIndex, mu, allocFlags, result, regVars>>

\* the run-time misuse branch: lock, log, decide shouldPanic, unlock, and
\* panic or return RuntimeIDInvalid
ConcMisuse(t) ==
    /\ threads[t].pc = "misuse"
    /\ MutexFree
    /\ threads' = [threads EXCEPT ![t].pc = "done",
                                  ![t].verdict = IF ShouldPanic THEN "runtimePanic"
                                                 ELSE "RuntimeIDInvalid"]
    /\ UNCHANGED <<registeredIDs, numberIndex, mu, allocFlags, result, regVars>>

\* r.mu.Lock(); defer r.mu.Unlock()
ConcLock(t) ==
    /\ threads[t].pc = "enter"
    /\ MutexFree
    /\ mu' = t
    /\ threads' = [threads EXCEPT ![t].pc = "locked"]
    /\ UNCHANGED <<registeredIDs, numberIndex, allocFlags, result, regVars>>

\* validations 0-3, creation of the group's list, and the walk of the list
ConcValidate(t) ==
    /\ threads[t].pc = "locked"
    /\ LET c == threads[t].call
           key == GroupKey(c.domain, c.static)
           list == GroupList(numberIndex, key)
           verdict == IF c.op = "ID" /\ c.domain = reservedDomain THEN "reserved"
                      ELSE Validate(registeredIDs, numberIndex, c.domain, c.number,
                                    c.static, c.name)
       IN /\ threads' = [threads EXCEPT
                            ![t].pc = "validated",
                            ![t].verdict = verdict,
                            ![t].insertAfter =
                                IF verdict = "none"
                                THEN WalkList(list, c.number, 1, 0, 0 - 1, FALSE).insertAfter
                                ELSE 0]
          /\ numberIndex' = IF GroupCreated(verdict) THEN (key :> list) @@ numberIndex
                            ELSE numberIndex
    /\ UNCHANGED <<registeredIDs, mu, allocFlags, result, regVars>>

\* the panic of a failed validation, or the insertion after insertAfter and
\* the write of the name map; the deferred Unlock runs in both cases
ConcCommit(t) ==
    /\ threads[t].pc = "validated"
    /\ LET c == threads[t].call
           key == GroupKey(c.domain, c.static)
           id == ErrorID(c.name, c.domain, c.level, c.static, c.number, TRUE)
           newNode == [number |-> c.number, name |-> c.name, id |-> String(id)]
       IN IF threads[t].verdict = "none"
          THEN /\ numberIndex' = (key :> InsertNode(GroupList(numberIndex, key), newNode,
                                                    threads[t].insertAfter)) @@ numberIndex
               /\ registeredIDs' = (c.name :> id) @@ registeredIDs
          ELSE UNCHANGED <<registeredIDs, numberIndex>>
    /\ mu' = 0
    /\ threads' = [threads EXCEPT ![t].pc = "done"]
    /\ UNCHANGED <<allocFlags, result, regVars>>

\* the goroutine takes the returned ErrorID (or recovers the panic)
ConcReturn(t) ==
    /\ threads[t].pc = "done"
    /\ threads' = [threads EXCEPT ![t] = IdleThread]
    /\ UNCHANGED <<registeredIDs, numberIndex, mu, allocFlags, result, regVars>>

NextConc ==
    \/ \E t \in Threads, call \in ConcRequests : ConcEnter(t, call)
    \/ \E t \in Threads : ConcMisuse(t)
    \/ \E t \in Threads : ConcLock(t)
    \/ \E t \in Threads : ConcValidate(t)
    \/ \E t \in Threads : ConcCommit(t)
    \/ \E t \in Threads : ConcReturn(t)

SpecConc == Init /\ [][NextConc]_vars

-----------------------------------------------------------------------------
(* The hook engine: listeners are registered, and New, Form and From fire  *)
(* events                                                                  *)

HookRegistries == {"global", "custom"}
Listeners == {"ok", "panic"}

\* an application that has registered UserB and one mapper in its own
\* registry
InitHooks ==
    /\ InitAlloc
    /\ InitRegistryWith([r \in Registries |-> NoHooks],
                        [r \in Registries |->
                            IF r = "global" THEN SentinelTemplates
                            ELSE IF r = "custom"
                            THEN String(UserB) :> Template(UserB, "first message", FALSE)
                            ELSE <<>>],
                        [NoMappers EXCEPT !["custom"] =
                            MapperList(<<[name |-> "m50", priority |-> 50,
                                          matches |-> {"e1"}, added |-> 1]>>)])

NextHooks ==
    \/ \E r \in HookRegistries, t \in FiredHookTypes, l \in Listeners : On(r, t, l)
    \/ \E r \in HookRegistries, id \in {UserA, UserB} : New(r, id)
    \/ \E r \in HookRegistries : Form(r, UserA, "first message", FALSE)
    \/ \E r \in Registries, v \in ForeignErrors : From(r, Foreign(v))
    \/ Done

SpecHooks == InitHooks /\ [][NextHooks]_vars

-----------------------------------------------------------------------------
(* Registration of callbacks of every type for every hook type            *)

\* the values of t: the ten constants and HookType(10), which is none of them
OnTypes == HookTypes \cup {"HookType(10)"}

\* the values of fn: a function of each slice type, and a func()
OnCallbacks ==
    {[sig |-> sg, run |-> "ok"] :
        sg \in {SigContext, SigWrap, SigFromFail, SigFromSuccess, SigForm, "func()"}}

\* a program that has registered no callback yet
InitOn == InitAlloc /\ InitRegistry

NextOn ==
    \/ \E r \in HookRegistries, t \in OnTypes, fn \in OnCallbacks : HooksOn(r, t, fn)
    \/ Done

SpecOn == InitOn /\ [][NextOn]_vars

-----------------------------------------------------------------------------
(* Events run step by step while listeners are registered, by other        *)
(* goroutines and by the listeners themselves                              *)

RunTypes == {"HookCreate", "HookForm"}
RunListeners == {"ok", "register"}

InitRun == InitAlloc /\ InitRegistry

RunnerStep ==
    \/ Snapshot
    \/ RUnlock
    \/ Invoke
    \/ ListenerLock
    \/ ListenerAppend
    \/ Finish

NextRun ==
    \/ \E r \in HookRegistries, t \in RunTypes, l \in RunListeners : OnElsewhere(r, t, l)
    \/ Done
    \/ \E r \in HookRegistries, t \in RunTypes : RLock(r, t)
    \/ RunnerStep
    \/ RunReturn

SpecRun == InitRun /\ [][NextRun]_vars

\* a goroutine that can take its next step is scheduled eventually
SpecRunFair == SpecRun /\ WF_vars(RunnerStep)

-----------------------------------------------------------------------------
(* The mapper chain and From: mappers are registered, errors are created   *)
(* and kept, and errors of every kind are passed to From                   *)

MapRegistries == {"custom", "zero"}

\* an application that has registered UserB in its own registry and
\* listeners, some of them panicking, for the events From can fire
InitMap ==
    /\ InitAlloc
    /\ InitRegistryWith(
            [r \in Registries |->
                IF r = "global"
                THEN [NoHooks EXCEPT !["HookCreate"] = <<"ok">>, !["HookWrap"] = <<"panic">>]
                ELSE IF r = "custom"
                THEN [NoHooks EXCEPT !["HookCreate"] = <<"ok">>,
                                     !["HookFromFail"] = <<"panic", "ok">>,
                                     !["HookFromSuccess"] = <<"panic">>]
                ELSE [NoHooks EXCEPT !["HookFromFail"] = <<"panic">>]],
            [r \in Registries |->
                IF r = "global" THEN SentinelTemplates
                ELSE IF r = "custom"
                THEN String(UserB) :> Template(UserB, "first message", FALSE)
                ELSE <<>>],
            NoMappers)

NextMap ==
    \/ \E r \in MapRegistries, m \in MapperPool : RegisterMapper(r, m)
    \/ \E r \in HookRegistries : New(r, UserB)
    \/ op.name = "New" /\ Keep
    \/ \E r \in Registries, err \in ErrorInputs : From(r, err)
    \/ \E r \in MapRegistries, v \in ForeignErrors : MapCall(r, Foreign(v))
    \/ \E allow \in BOOLEAN : AllowInternalLogs("custom", allow)
    \/ Done

SpecMap == InitMap /\ [][NextMap]_vars

-----------------------------------------------------------------------------
(* The definition registry: Register, Form and New on two registries       *)

RegRegistries == {"global", "custom"}
RegIDs == {UserA, TwinA, ForgedA}

NextReg ==
    \/ \E r \in RegRegistries, id \in RegIDs, d \in Defaults : Register(r, id, d[1], d[2])
    \/ \E r \in RegRegistries, id \in RegIDs, d \in Defaults : Form(r, id, d[1], d[2])
    \/ \E r \in RegRegistries, id \in RegIDs : New(r, id)
    \/ Done

SpecReg == Init /\ [][NextReg]_vars

-----------------------------------------------------------------------------
(* Batch registration: RegisterMany with minted and forged IDs, and New    *)

BatchItems == {Template(id, "first message", FALSE) : id \in {UserA, UserB, ForgedA}}

RECURSIVE BatchesOfLength(_)
BatchesOfLength(n) ==
    IF n = 0 THEN {<<>>}
    ELSE {Append(b, t) : b \in BatchesOfLength(n - 1), t \in BatchItems}

Batches == UNION {BatchesOfLength(n) : n \in 0..MaxBatch}

NextMany ==
    \/ \E r \in RegRegistries, defs \in Batches : RegisterMany(r, defs)
    \/ \E r \in RegRegistries, id \in {UserA, UserB} : New(r, id)
    \/ Done

SpecMany == Init /\ [][NextMany]_vars

-----------------------------------------------------------------------------
(* Instances: New and Form hand out instances, the application keeps them  *)
(* and calls builders on them                                              *)

MetaKeys == {"k1", "k2"}

\* an application whose registry holds the template of UserA with one
\* default meta entry
InitInst ==
    /\ InitAlloc
    /\ InitRegistryMeta(
            [r \in Registries |-> NoHooks],
            [r \in Registries |->
                IF r = "global" THEN SentinelTemplates
                ELSE IF r = "custom"
                THEN String(UserA) :> TemplateWithMeta(UserA, "first message", FALSE, MetaRef(1))
                ELSE <<>>],
            NoMappers,
            <<"k1" :> "v1">>)

NextInst ==
    \/ \E id \in {UserA, UserB} : New("custom", id)
    \/ Form("custom", UserB, "second message", TRUE)
    \/ Keep
    \/ \E p \in 1..Len(heap) : Msg(p, "changed")
    \/ \E p \in 1..Len(heap) : With(p, Foreign("e1"))
    \/ \E p \in 1..Len(heap), k \in MetaKeys : AddMeta(p, k, "v2")
    \/ Done

SpecInst == InitInst /\ [][NextInst]_vars

-----------------------------------------------------------------------------
(* Builders on instances of static and dynamic identifiers under every     *)
(* setting of the two panic flags                                          *)

NextStatic ==
    \/ \E id \in {UserA, UserB} : New("custom", id)
    \/ Form("custom", UserB, "second message", TRUE)
    \/ Keep
    \/ \E p \in 1..Len(heap) : Msg(p, "changed")
    \/ \E p \in 1..Len(heap) : With(p, Foreign("e1"))
    \/ \E allow, shouldPanic \in BOOLEAN : AllowStaticMutations("custom", allow, shouldPanic)
    \/ \E allow \in BOOLEAN : AllowRuntimePanics(allow)
    \/ Done

SpecStatic == InitInst /\ [][NextStatic]_vars

-----------------------------------------------------------------------------
(* Builders on the instances New returns and on the templates Form hands   *)
(* to the listeners of the form event, under every setting that            *)
(* AllowStaticMutations makes                                              *)

\* an application with one listener of the form event
InitAllow ==
    /\ InitAlloc
    /\ InitRegistryWith(
            [r \in Registries |->
                IF r = "global" THEN [NoHooks EXCEPT !["HookForm"] = <<"ok">>] ELSE NoHooks],
            [r \in Registries |-> IF r = "global" THEN SentinelTemplates ELSE <<>>],
            NoMappers)

NextAllow ==
    \/ Form("custom", UserA, "first message", FALSE)
    \/ KeepTemplate
    \/ New("custom", UserA)
    \/ op.name = "New" /\ Keep
    \/ \E p \in 1..Len(heap) : Msg(p, "changed")
    \/ \E p \in 1..Len(heap) : With(p, Foreign("e1"))
    \/ \E allow, shouldPanic \in BOOLEAN : AllowStaticMutations("custom", allow, shouldPanic)
    \/ \E allow \in BOOLEAN : AllowRuntimePanics(allow)
    \/ Done

SpecAllow == InitAllow /\ [][NextAllow]_vars

-----------------------------------------------------------------------------
(* Pattern matching on errors while listeners of the match event are       *)
(* registered                                                              *)

NextMatch ==
    \/ \E r \in HookRegistries, fn \in OnCallbacks : HooksOn(r, "HookMatch", fn)
    \/ \E r \in HookRegistries : New(r, UserB)
    \/ op.name = "New" /\ Keep
    \/ \E err \in ErrorInputs, id \in {UserA, UserB} : Case(err, id)
    \/ Done

SpecMatch == InitHooks /\ [][NextMatch]_vars

-----------------------------------------------------------------------------
(* Properties of the allocator                                             *)

GroupNumbers(list) == {list[i].number : i \in 1..Len(list)}

\* C1: after any sequence of allocation calls, accepted or rejected, the
\* sequence numbers held by every (category, kind) group are exactly
\* 0, 1, ..., n-1 for the group's size n, in order, without gap or duplicate.
C1_GroupsContiguousFromZero ==
    \A key \in DOMAIN numberIndex :
        \A i \in 1..Len(numberIndex[key]) : numberIndex[key][i].number = i - 1

\* the numbers below the group's maximum that the group does not hold
MissingSlots(list) ==
    {k \in 0..MaxNumber : /\ k \notin GroupNumbers(list)
                          /\ \E m \in GroupNumbers(list) : k < m}

\* the sequence numbers the gap rule admits for a group
Admitted(list, n) ==
    \/ Len(list) = 0 /\ n = 0
    \/ /\ Len(list) > 0
       /\ \A m \in GroupNumbers(list) : m < n
       /\ \E k \in GroupNumbers(list) : n = k + 1
    \/ MissingSlots(list) = {n}

\* C2: an allocation of sequence number n into a group is accepted only if
\* the group is empty and n = 0, or n is one greater than the group's
\* maximum, or n fills a single missing slot; any other n is rejected and
\* nothing is allocated.
C2_AcceptedOnlyWithoutGap ==
    [][(result = NoCall /\ result' # NoCall)
        => LET list == GroupList(numberIndex, GroupKey(result'.domain, result'.static))
           IN IF Admitted(list, result'.number)
              THEN TRUE
              ELSE /\ result'.outcome # "none"
                   /\ registeredIDs' = registeredIDs
                   /\ \A key \in DOMAIN numberIndex : numberIndex'[key] = numberIndex[key]]_vars


\* what the validations of a call in progress give on the current maps
CurrentVerdict(c) ==
    IF c.op = "ID" /\ c.domain = reservedDomain THEN "reserved"
    ELSE Validate(registeredIDs, numberIndex, c.domain, c.number, c.static, c.name)

CurrentInsertAfter(c) ==
    WalkList(GroupList(numberIndex, GroupKey(c.domain, c.static)), c.number,
             1, 0, 0 - 1, FALSE).insertAfter

Accepted(t) == threads[t].pc = "done" /\ threads[t].verdict = "none"

SameSlot(c1, c2) ==
    c1.domain = c2.domain /\ c1.static = c2.static /\ c1.number = c2.number

\* C3: the validate-and-insert sequence of an allocation is atomic with
\* respect to concurrent allocations: between a call's validation and its
\* insertion the maps it validated against are those it inserts into (so
\* every execution equals the serial execution in lock order), no group
\* ever holds a number twice, every allocated name has exactly one node, and
\* of two concurrent calls for the same name or for the same number of one
\* group at most one is accepted.
C3_ValidateInsertAtomic ==
    /\ \A t \in Threads :
          threads[t].pc = "validated"
            => /\ threads[t].verdict = CurrentVerdict(threads[t].call)
               /\ threads[t].verdict = "none"
                    => threads[t].insertAfter = CurrentInsertAfter(threads[t].call)
    /\ \A key \in DOMAIN numberIndex :
          /\ Cardinality(GroupNumbers(numberIndex[key])) = Len(numberIndex[key])
          /\ \A i \in 1..Len(numberIndex[key]) :
                /\ numberIndex[key][i].name \in DOMAIN registeredIDs
                /\ registeredIDs[numberIndex[key][i].name].number = numberIndex[key][i].number
                /\ key = GroupKey(registeredIDs[numberIndex[key][i].name].domain,
                                  registeredIDs[numberIndex[key][i].name].isStatic)
    /\ \A t1, t2 \in Threads :
          (t1 # t2 /\ Accepted(t1) /\ Accepted(t2))
            => /\ threads[t1].call.name # threads[t2].call.name
               /\ ~SameSlot(threads[t1].call, threads[t2].call)

\* two goroutines raced for the same number of one group under different
\* names: one call was accepted and the other rejected for the collision
C3_Witness ==
    \E t1, t2 \in Threads :
        /\ t1 # t2
        /\ Accepted(t1)
        /\ threads[t2].pc = "done"
        /\ threads[t2].verdict = "collision"
        /\ SameSlot(threads[t1].call, threads[t2].call)
        /\ threads[t1].call.name # threads[t2].call.name

\* the edit distance of two strings by its recursive definition
RECURSIVE EditDistance(_, _)
EditDistance(s, t) ==
    IF Len(s) = 0 THEN Len(t)
    ELSE IF Len(t) = 0 THEN Len(s)
    ELSE minInt(EditDistance(Tail(s), t) + 1,
                EditDistance(s, Tail(t)) + 1,
                EditDistance(Tail(s), Tail(t)) + (IF Head(s) = Head(t) THEN 0 ELSE 1))

C23_ReservedCategoryInternalOnly ==
    [][(result = NoCall /\ result' # NoCall) =>
            /\ (result'.op = "ID" /\ result'.domain = reservedDomain) =>
                    /\ result'.outcome # "none"
                    /\ registeredIDs' = registeredIDs
                    /\ numberIndex' = numberIndex
            /\ \A n \in DOMAIN registeredIDs' \ DOMAIN registeredIDs :
                    registeredIDs'[n].domain = reservedDomain => result'.op = "internalID"
      ]_vars

\* ID was called before main for the reserved category with a name and a
\* number that internalID would accept, and was rejected for the category
C23_Witness ==
    /\ result # NoCall
    /\ result.op = "ID"
    /\ result.domain = reservedDomain
    /\ result.outcome = "reserved"
    /\ Validate(registeredIDs, numberIndex, reservedDomain, result.number, result.static,
                result.name) = "none"

\* the first of the six rules, in the order reserved category, name prefix,
\* duplicate name, near-duplicate name, sequence collision, sequence gap,
\* that call c violates on the maps ids and idx; "none" when it violates none
FirstViolated(c, ids, idx) ==
    LET list == GroupList(idx, GroupKey(c.domain, c.static))
    IN IF c.op = "ID" /\ c.domain = reservedDomain THEN "reserved"
       ELSE IF ~hasPrefix(c.name, c.domain) THEN "prefix"
       ELSE IF c.name \in DOMAIN ids THEN "duplicate"
       ELSE IF \E n \in DOMAIN ids : levenshteinDistance(c.name, n) <= 3 THEN "similar"
       ELSE IF c.number \in GroupNumbers(list) THEN "collision"
       ELSE IF ~Admitted(list, c.number) THEN "gap"
       ELSE "none"

\* C24: a call that passes the run-time guard and is rejected for one of
\* the six rules is rejected for the first rule it violates, in the order
\* reserved category, name prefix, duplicate name, near-duplicate name,
\* sequence collision, sequence gap.
C24_EarliestViolationReported ==
    [][(/\ result = NoCall
        /\ result' # NoCall
        /\ result'.outcome \notin {"none", "runtimePanic", "RuntimeIDInvalid"}) =>
            result'.outcome = FirstViolated(result', registeredIDs, numberIndex)
      ]_vars

OwnIDs(d) ==
    [n \in {m \in DOMAIN registeredIDs : registeredIDs[m].domain = d} |-> registeredIDs[n]]

\* the lists of the groups of category d, without nodes of other categories
OwnIndex(d) ==
    [key \in {GroupKey(d, s) : s \in BOOLEAN} \cap DOMAIN numberIndex |->
        SelectSeq(numberIndex[key], LAMBDA node : registeredIDs[node.name].domain = d)]

\* the outcome the call c would have had if only the calls of its own
\* category had been made
OwnVerdict(c) ==
    Validate(OwnIDs(c.domain), OwnIndex(c.domain), c.domain, c.number, c.static, c.name)

\* C26 as stated: the outcome of every call is the outcome the calls of its
\* own category alone determine.
C26_OutcomeFromOwnCategoryOnly ==
    [][(result = NoCall /\ result' # NoCall) => result'.outcome = OwnVerdict(result')]_vars

\* C26, amended: allocations of other categories change the outcome of a
\* call only by making it a duplicate or a near-duplicate of a name of
\* another category; every other
\* outcome is the one the calls of its own category determine, an accepted
\* call renders the ID that its level, category, number and kind give, its
\* group's list records that rendering, and no other list changes.
C26_DeterministicUpToNameClash ==
    [][(result = NoCall /\ result' # NoCall) =>
            LET c == result'
                id == ErrorID(c.name, c.domain, c.level, c.static, c.number, TRUE)
                key == GroupKey(c.domain, c.static)
            IN /\ c.outcome \notin {"duplicate", "similar"} => c.outcome = OwnVerdict(c)
               /\ (c.outcome \in {"duplicate", "similar"} /\ c.outcome # OwnVerdict(c)) =>
                     \E n \in DOMAIN registeredIDs :
                         /\ registeredIDs[n].domain # c.domain
                         /\ levenshteinDistance(c.name, n) <= 3
               /\ c.outcome = "none" =>
                     /\ String(registeredIDs'[c.name]) = String(id)
                     /\ \E i \in 1..Len(numberIndex'[key]) :
                            numberIndex'[key][i] =
                                [number |-> c.number, name |-> c.name, id |-> String(id)]
                     /\ \A k \in DOMAIN numberIndex \ {key} : numberIndex'[k] = numberIndex[k]
      ]_vars

\* the second number of a group of category A was accepted after names had
\* been allocated in category Ab
C26_Witness ==
    /\ result # NoCall
    /\ result.outcome = "none"
    /\ result.domain = DomA
    /\ result.number = 1
    /\ \E n \in DOMAIN registeredIDs : registeredIDs[n].domain = DomB

-----------------------------------------------------------------------------
(* Properties of the definition registry, the hook engine and the mapper   *)
(* chain                                                                   *)

\* C4: registration is first-write-wins. Once a rendered ID is stored in a
\* registry, no Register or Form call changes the message or system flag
\* stored for it; a rendered ID enters the store only with the message and
\* flag of the call that inserts it; and New (also the New at the end of
\* Form) returns the stored message and flag.
C4_FirstWriteWins ==
    [][\A r \in RegRegistries, id \in MintedIDs :
         LET k == String(id)
         IN /\ k \in DOMAIN errors[r] =>
                 /\ k \in DOMAIN errors'[r]
                 /\ errors'[r][k].Message = errors[r][k].Message
                 /\ errors'[r][k].IsSystem = errors[r][k].IsSystem
            /\ (k \notin DOMAIN errors[r] /\ k \in DOMAIN errors'[r]) =>
                 /\ op'.name \in {"Register", "Form"}
                 /\ op'.reg = r
                 /\ String(op'.arg.ID) = k
                 /\ errors'[r][k].Message = op'.arg.Message
                 /\ errors'[r][k].IsSystem = op'.arg.IsSystem
            /\ (/\ op'.name \in {"New", "Form"}
                /\ op'.reg = r
                /\ ~op'.aborted
                /\ (IF op'.name = "New" THEN op'.arg ELSE op'.arg.ID) = id
                /\ k \in DOMAIN errors'[r]) =>
                 /\ op'.ret.obj.Message = errors'[r][k].Message
                 /\ op'.ret.obj.IsSystem = errors'[r][k].IsSystem
      ]_vars

\* New returns the first message although a later Form for the same ID,
\* recorded in the registry's definitions, supplied another one
C4_Witness ==
    /\ op.name = "New"
    /\ op.arg = UserA
    /\ ~op.aborted
    /\ op.ret.obj.Message = "first message"
    /\ op.ret.obj.IsSystem = FALSE
    /\ UserA \in DOMAIN definitions[op.reg]
    /\ definitions[op.reg][UserA].DefaultMessage = "second message"

\* C10: the templates stored in a registry all carry an ID minted by an
\* allocator, and a Register call with an ID that no allocator minted
\* panics and leaves the store as it was.
C10_StoreHoldsMintedIDsOnly ==
    /\ [](\A r \in Registries : \A k \in DOMAIN errors[r] : errors[r][k].ID \in MintedIDs)
    /\ [][(op'.name = "Register" /\ op'.arg.ID \notin MintedIDs) =>
            (op'.aborted /\ errors' = errors)]_vars

\* a forged ID was refused by a registry that already stores a minted one
C10_Witness ==
    /\ op.name = "Register"
    /\ op.arg.ID = ForgedA
    /\ op.aborted
    /\ String(UserA) \in DOMAIN errors[op.reg]
    /\ errors[op.reg][String(UserA)].ID \in {UserA, TwinA}

\* C5: when a listener panics while New, Form or From runs an event, the
\* operation does not abort, and every listener registered after the
\* panicking one for the same event of the same registry is invoked, in
\* order, later in the same operation.
C5_ListenerPanicIsolated ==
    op.name \in {"New", "Form", "From"} =>
        \A k \in 1..Len(op.invoked) :
            LET e == op.invoked[k]
            IN hooks[e[1]][e[2]][e[3]] = "panic" =>
                 /\ ~op.aborted
                 /\ \A j \in (e[3] + 1)..Len(hooks[e[1]][e[2]]) :
                        /\ k + (j - e[3]) <= Len(op.invoked)
                        /\ op.invoked[k + (j - e[3])] = <<e[1], e[2], j>>

\* New ran the creation event whose first listener panics and whose second
\* listener was invoked all the same
C5_Witness ==
    /\ op.name = "New"
    /\ op.reg = "global"
    /\ ~op.aborted
    /\ hooks["global"]["HookCreate"] = <<"panic", "ok">>
    /\ op.invoked = <<<<"global", "HookCreate", 1>>, <<"global", "HookCreate", 2>>>>

\* C6: in every mapper chain the priorities never increase from the front
\* to the back, and of two mappers of equal priority the one added first
\* comes first.
C6_ChainSortedAndStable ==
    \A r \in Registries :
        LET items == genericMappers[r].items
        IN \A i, j \in 1..Len(items) :
              i < j =>
                /\ items[i].priority >= items[j].priority
                /\ items[i].priority = items[j].priority => items[i].added < items[j].added

\* a chain of three: the mapper added last leads because of its priority,
\* the two of equal priority keep the order of their addition
C6_Witness ==
    LET items == genericMappers["custom"].items
    IN /\ Len(items) = 3
       /\ items[1].priority = 100 /\ items[1].added = 3
       /\ items[2].priority = 50 /\ items[2].added = 1
       /\ items[3].priority = 50 /\ items[3].added = 2

\* the positions of the chain of registry r whose mapper matches err
MatchingPositions(r, err) ==
    {i \in 1..Len(genericMappers[r].items) :
        err.kind = "foreign" /\ err.val \in genericMappers[r].items[i].matches}

\* C7: Map on a foreign error that some mapper of the chain matches returns
\* the result and the name of the matching mapper nearest to the front,
\* whose priority no matching mapper exceeds, and it has invoked the mappers
\* up to that one and none behind it.
C7_FirstMatchInListOrder ==
    (op.name = "Map" /\ MatchingPositions(op.reg, op.arg) # {}) =>
        LET items == genericMappers[op.reg].items
            matching == MatchingPositions(op.reg, op.arg)
            first == CHOOSE i \in matching : \A j \in matching : i <= j
        IN /\ op.ret.kind = "mapped"
           /\ op.ret.name = items[first].name
           /\ op.ret.obj.Message = items[first].name
           /\ \A j \in matching : items[first].priority >= items[j].priority
           /\ \A j \in matching : items[first].priority = items[j].priority =>
                                      items[first].added <= items[j].added
           /\ op.mapCalls = [k \in 1..first |-> items[k].name]

\* the priority-50 mapper was added before the priority-100 mapper, both
\* match, and Map returned the priority-100 result without invoking the other
C7_Witness ==
    LET items == genericMappers["custom"].items
    IN /\ op.name = "Map"
       /\ op.reg = "custom"
       /\ op.arg = Foreign("e1")
       /\ Len(items) = 2
       /\ items[1].name = "m100" /\ items[1].added = 2
       /\ items[2].name = "m50" /\ items[2].added = 1
       /\ op.ret = RetMapped(MapperResult(items[1]), "m100")
       /\ op.mapCalls = <<"m100">>

\* C8: From on a *Error that the same registry created returns the very
\* pointer it was given; no mapper is invoked, no listener of any event
\* (creation included) is invoked, and the instance is left as it was.
C8_FromOwnErrorIsIdentity ==
    [][(/\ op'.name = "From"
        /\ op'.arg.kind = "fail"
        /\ heap[op'.arg.ptr].registry = op'.reg) =>
            /\ op'.ret = RetSame(op'.arg.ptr)
            /\ ~op'.aborted
            /\ op'.mapCalls = <<>>
            /\ op'.invoked = <<>>
            /\ heap' = heap
      ]_vars

\* From returned the instance of its own registry although the registry has
\* mappers and a creation listener
C8_Witness ==
    /\ op.name = "From"
    /\ op.reg = "custom"
    /\ op.arg.kind = "fail"
    /\ heap[op.arg.ptr].registry = "custom"
    /\ heap[op.arg.ptr].ID = UserB
    /\ op.ret = RetSame(op.arg.ptr)
    /\ Len(genericMappers["custom"].items) > 0
    /\ Len(hooks["custom"]["HookCreate"]) > 0

\* C9: From on a foreign error that no mapper of the registry matches, the
\* registry without a mapper list included, does not abort and returns a
\* new instance of one of the library's identifiers of the reserved domain
\* whose cause is the foreign error.
C9_UnmatchedGivesSentinel ==
    (/\ op.name = "From"
     /\ op.arg.kind = "foreign"
     /\ MatchingPositions(op.reg, op.arg) = {}) =>
        /\ ~op.aborted
        /\ op.ret.kind = "fresh"
        /\ op.ret.obj.ID \in {NotMatchedInAnyMapper, NoMapperRegistered}
        /\ op.ret.obj.ID.domain = reservedDomain
        /\ op.ret.obj.ID = (IF genericMappers[op.reg].nil THEN NoMapperRegistered
                            ELSE NotMatchedInAnyMapper)
        /\ op.ret.obj.Cause = op.arg

\* the chain was walked without a match, a listener of the failure event
\* panicked, and From returned the sentinel that wraps the foreign error
C9_Witness ==
    /\ op.name = "From"
    /\ op.reg = "custom"
    /\ op.arg = Foreign("e2")
    /\ op.mapCalls = <<"skip100", "m50">>
    /\ <<"custom", "HookFromFail", 1>> \in {op.invoked[k] : k \in 1..Len(op.invoked)}
    /\ hooks["custom"]["HookFromFail"][1] = "panic"
    /\ ~op.aborted
    /\ op.ret.obj.ID = NotMatchedInAnyMapper
    /\ op.ret.obj.Cause = Foreign("e2")

\* C11: a Register call with an ID that no allocator minted does not panic
\* and returns an error value to its caller.
C11_RegisterRejectionNonFatal ==
    (op.name = "Register" /\ op.arg.ID \notin MintedIDs) =>
        (~op.aborted /\ op.ret.kind \in {"fresh", "same"})

\* C12: RegisterMany does not panic; after it every definition of the batch
\* with a minted ID is stored under its rendered ID, whatever its position
\* relative to a failing one, and it returns nil exactly when no definition
\* of the batch failed (no return value counts as nil), an aggregate error
\* otherwise.
C12_RegisterManyCollectsFailures ==
    op.name = "RegisterMany" =>
        LET defs == op.arg
            failed == {i \in 1..Len(defs) : defs[i].ID \notin MintedIDs}
        IN /\ ~op.aborted
           /\ \A i \in 1..Len(defs) :
                  i \notin failed => String(defs[i].ID) \in DOMAIN errors[op.reg]
           /\ failed = {} => op.ret \in {RetNil, RetNone}
           /\ failed # {} => op.ret.kind = "fresh"

\* the map behind a Meta field, the empty map for nil
MetaEntries(ms, meta) == IF meta.kind = "ref" THEN ms[meta.addr] ELSE <<>>

\* C13: New hands out an instance of its own: no stored template and no
\* instance shares its map of metadata with another, and a builder call that
\* changes the message, the cause or a metadata entry of one instance leaves
\* every stored template, the entries of its default metadata, and every
\* other instance with its metadata as they were.
C13_InstancesAreIsolated ==
    [][op'.name \in {"Msg", "With", "AddMeta"} =>
         /\ errors' = errors
         /\ \A r \in Registries : \A k \in DOMAIN errors[r] :
                MetaEntries(metas', errors[r][k].Meta) = MetaEntries(metas, errors[r][k].Meta)
         /\ \A q \in 1..Len(heap) :
                q # op'.arg =>
                    /\ heap'[q] = heap[q]
                    /\ MetaEntries(metas', heap[q].Meta) = MetaEntries(metas, heap[q].Meta)
      ]_vars

\* two instances of the template of UserA are held; an entry of the first
\* was overwritten, the template and the second instance still have the
\* default
C13_Witness ==
    /\ op.name = "AddMeta"
    /\ op.arg = 1
    /\ Len(heap) = 2
    /\ heap[1].ID = UserA /\ heap[2].ID = UserA
    /\ MetaEntries(metas, heap[1].Meta)["k1"] = "v2"
    /\ MetaEntries(metas, heap[2].Meta)["k1"] = "v1"
    /\ MetaEntries(metas, errors["custom"][String(UserA)].Meta)["k1"] = "v1"
    /\ errors["custom"][String(UserA)].Message = "first message"

\* C14: New for a minted ID whose rendered ID the registry does not hold
\* does not panic, returns a new instance of UnregisteredError that names
\* the ID, and leaves the templates and definitions of every registry as
\* they were.
C14_NewUnregisteredGivesSentinel ==
    [][(/\ op'.name = "New"
        /\ op'.arg \in MintedIDs
        /\ String(op'.arg) \notin DOMAIN errors[op'.reg]) =>
            /\ ~op'.aborted
            /\ op'.ret.kind = "fresh"
            /\ op'.ret.obj.ID = UnregisteredError
            /\ op'.ret.obj.Args = <<String(op'.arg)>>
            /\ errors' = errors
            /\ definitions' = definitions
      ]_vars

\* New of the custom registry returned the sentinel for UserA, which the
\* registry still does not hold
C14_Witness ==
    /\ op.name = "New"
    /\ op.reg = "custom"
    /\ op.arg = UserA
    /\ ~op.aborted
    /\ op.ret.obj.ID = UnregisteredError
    /\ op.ret.obj.Message = "error with ID(%s) is not registered in the registry"
    /\ String(UserA) \notin DOMAIN errors["custom"]

\* the listeners of event t of registry r, each once, in the order of the list
AllListeners(r, t) == [i \in 1..Len(hooks[r][t]) |-> <<r, t, i>>]

\* C15: a New that finds the template of its ID and returns has invoked the
\* creation listeners of its registry, each exactly once and nothing else,
\* and the instance it handed to them is the instance it returns.
C15_NewFiresCreateOnce ==
    (/\ op.name = "New"
     /\ ~op.aborted
     /\ String(op.arg) \in DOMAIN errors[op.reg]) =>
        /\ op.invoked = AllListeners(op.reg, "HookCreate")
        /\ op.handed = op.ret.obj
        /\ op.ret.obj.registry = op.reg

\* New of the custom registry for the registered UserB invoked both creation
\* listeners of that registry
C15_Witness ==
    /\ op.name = "New"
    /\ op.reg = "custom"
    /\ op.arg = UserB
    /\ op.ret.obj.ID = UserB
    /\ Len(hooks["custom"]["HookCreate"]) = 2
    /\ op.invoked = <<<<"custom", "HookCreate", 1>>, <<"custom", "HookCreate", 2>>>>

\* the entries of a sequence of invocations that belong to event t of registry r
InvokedOf(invoked, r, t) ==
    SelectSeq(invoked, LAMBDA x : x[1] = r /\ x[2] = t)

\* C16: On puts the listener behind the ones registered before it and moves
\* none of them, and an operation that runs an event invokes every listener
\* of that event's list exactly once, in the order of the list.
C16_ListenersOnceInOrder ==
    [][/\ op'.name = "On" =>
            \A r \in Registries : \A t \in HookTypes :
                /\ \A i \in 1..Len(hooks[r][t]) : hooks'[r][t][i] = hooks[r][t][i]
                /\ Len(hooks'[r][t]) =
                       Len(hooks[r][t]) + (IF r = op'.reg /\ t = op'.arg THEN 1 ELSE 0)
       /\ op'.name \in {"New", "Form", "From"} =>
            \A r \in Registries : \A t \in HookTypes :
                InvokedOf(op'.invoked, r, t) \in {<<>>, AllListeners(r, t)}
      ]_vars

\* From of the custom registry for an error no mapper matches ran the three
\* failure listeners of that registry, the panicking one in the middle
C16_Witness ==
    /\ op.name = "From"
    /\ op.reg = "custom"
    /\ hooks["custom"]["HookFromFail"] = <<"ok", "panic", "ok">>
    /\ InvokedOf(op.invoked, "custom", "HookFromFail") =
           <<<<"custom", "HookFromFail", 1>>, <<"custom", "HookFromFail", 2>>,
             <<"custom", "HookFromFail", 3>>>>

\* C17: a run* function holds the read lock while it copies the list and
\* no longer when it calls the listeners, and a run whose listeners call On
\* of the same registry reaches its end.
C17_RunOutsideLockCompletes ==
    /\ [](running.pc = "snapshot" =>
            /\ hooksMu[running.reg].readers = 1
            /\ running.hooks = hooks[running.reg][running.typ])
    /\ [](running.pc \in {"exec", "listener", "locked", "done"} =>
            hooksMu[running.reg].readers = 0)
    /\ (running.pc # "idle") ~> (running.pc = "done")

\* a run has ended whose first listener registered a listener on the list
\* that was running; the new one is in the list and was not called
C17_Witness ==
    /\ running.pc = "done"
    /\ running.hooks = <<"register", "ok">>
    /\ Len(running.invoked) = 2
    /\ hooks[running.reg][running.typ] = <<"register", "ok", "ok">>

\* C18: while the panic flag of the registry is off, Msg or With on an
\* instance that New made for a static identifier changes nothing of the
\* instance and returns the instance it was called on.
C18_StaticInstanceIgnoresMutators ==
    [][(/\ op'.name \in {"Msg", "With"}
        /\ IsStatic(heap[op'.arg].ID)
        /\ ~panicOnStaticMutations[heap[op'.arg].registry]) =>
            /\ ~op'.aborted
            /\ op'.ret = RetSame(op'.arg)
            /\ heap'[op'.arg] = heap[op'.arg]
      ]_vars

\* C19: Msg or With on an instance of a static identifier panics exactly
\* when the panic flag of its registry and the package flag
\* allowRuntimePanics are both on, and without a panic the instance is as
\* it was.
C19_StaticPanicNeedsBothFlags ==
    [][(/\ op'.name \in {"Msg", "With"}
        /\ IsStatic(heap[op'.arg].ID)) =>
            /\ op'.aborted <=>
                   (panicOnStaticMutations[heap[op'.arg].registry] /\ allowRuntimePanics)
            /\ ~op'.aborted => heap'[op'.arg] = heap[op'.arg]
      ]_vars

\* C20: On, New, Form and From of one registry leave the templates, the
\* definitions, the mapper chain and the listener lists of every other
\* registry as they were and invoke no listener of another registry.
C20_RegistriesShareNothing ==
    [][op'.name \in {"On", "New", "Form", "From"} =>
            /\ \A r \in Registries \ {op'.reg} :
                   /\ errors'[r] = errors[r]
                   /\ definitions'[r] = definitions[r]
                   /\ genericMappers'[r] = genericMappers[r]
                   /\ hooks'[r] = hooks[r]
            /\ \A i \in 1..Len(op'.invoked) : op'.invoked[i][1] = op'.reg
      ]_vars

\* C27 as stated: From on a non-nil input other than an instance of its own
\* registry walks the chain: where the chain has mappers, the first of them
\* is called.
C27_ChainWalkedUnlessOwnInstance ==
    [][(/\ op'.name = "From"
        /\ op'.arg.kind # "nil"
        /\ ~(op'.arg.kind = "fail" /\ heap[op'.arg.ptr].registry = op'.reg)
        /\ ~genericMappers[op'.reg].nil
        /\ Len(genericMappers[op'.reg].items) > 0) =>
            /\ Len(op'.mapCalls) > 0
            /\ op'.mapCalls[1] = genericMappers[op'.reg].items[1].name
      ]_vars

\* C27, amended: From returns unchanged every input in which errors.As
\* finds an instance, whichever registry owns the instance, without calling
\* a mapper or running an event; for every other non-nil input it calls the
\* mappers of the chain from the front up to the first that matches.
C27_ChainWalkedUnlessAnyInstance ==
    [][(op'.name = "From" /\ op'.arg.kind # "nil") =>
            IF op'.arg.kind \in {"fail", "wraps"}
            THEN /\ op'.ret = RetSame(op'.arg.ptr)
                 /\ ~op'.aborted
                 /\ op'.mapCalls = <<>>
                 /\ op'.invoked = <<>>
                 /\ heap' = heap
            ELSE ~genericMappers[op'.reg].nil =>
                    LET items == genericMappers[op'.reg].items
                        hits == MatchingPositions(op'.reg, op'.arg)
                        last == IF hits = {} THEN Len(items)
                                ELSE CHOOSE i \in hits : \A j \in hits : i <= j
                    IN op'.mapCalls = [i \in 1..last |-> items[i].name]
      ]_vars

\* From of the custom registry, which has mappers, was given an instance
\* that New of the default registry made and returned it without calling a
\* mapper
C27_Witness ==
    /\ op.name = "From"
    /\ op.reg = "custom"
    /\ op.arg.kind = "fail"
    /\ heap[op.arg.ptr].registry = "global"
    /\ op.ret = RetSame(op.arg.ptr)
    /\ op.mapCalls = <<>>
    /\ Len(genericMappers["custom"].items) > 0

\* C28: a From on a foreign error that returns has run exactly one of the
\* two mapping events of its registry: HookFromSuccess, each listener once,
\* and no listener of HookFromFail when a mapper of the chain matches;
\* HookFromFail, each listener once, and no listener of HookFromSuccess when
\* none matches or the registry has no chain.
C28_OneMappingEventPerFrom ==
    (op.name = "From" /\ op.arg.kind = "foreign" /\ ~op.aborted) =>
        LET matched == ~genericMappers[op.reg].nil /\ MatchingPositions(op.reg, op.arg) # {}
            mapping == SelectSeq(op.invoked,
                                 LAMBDA x : x[2] \in {"HookFromSuccess", "HookFromFail"})
        IN mapping = AllListeners(op.reg, IF matched THEN "HookFromSuccess" ELSE "HookFromFail")

\* From of the custom registry on an error that a mapper matches ran the
\* one listener of the success event and none of the two of the failure event
C28_Witness ==
    /\ op.name = "From"
    /\ op.reg = "custom"
    /\ op.arg = Foreign("e1")
    /\ MatchingPositions("custom", op.arg) # {}
    /\ Len(hooks["custom"]["HookFromFail"]) = 2
    /\ op.invoked = <<<<"custom", "HookFromSuccess", 1>>>>

\* C29: a From whose matching mapper returns an error with an identifier
\* that no allocator registered does not abort: it returns that error, runs
\* the success event, writes the warning only if internal logging is
\* enabled for the registry (and then writes it), and leaves the mapper
\* chain of every registry as it was for the calls that follow.
C29_UnregisteredResultIsNoFailure ==
    [][(/\ op'.name = "From"
        /\ op'.arg.kind = "foreign"
        /\ ~genericMappers[op'.reg].nil
        /\ \E k \in MatchingPositions(op'.reg, op'.arg) :
              /\ \A j \in MatchingPositions(op'.reg, op'.arg) : k <= j
              /\ ~IsRegistered(MapperResult(genericMappers[op'.reg].items[k]).ID)) =>
            /\ ~op'.aborted
            /\ op'.ret.kind = "fresh"
            /\ ~IsRegistered(op'.ret.obj.ID)
            /\ op'.invoked = AllListeners(op'.reg, "HookFromSuccess")
            /\ op'.logged = IF allowInternalLogs[op'.reg]
                            THEN <<"unregistered error">> ELSE <<>>
            /\ genericMappers' = genericMappers]_vars

\* with logging disabled, From of the custom registry returned the forged
\* error of the mapper "forged75" although a registered mapper follows it,
\* and wrote nothing
C29_Witness ==
    /\ op.name = "From"
    /\ op.reg = "custom"
    /\ op.arg = Foreign("e2")
    /\ ~op.aborted
    /\ op.ret = RetFresh(Instance(ForgedA, "forged75", FALSE, "none"))
    /\ op.mapCalls = <<"forged75">>
    /\ op.logged = <<>>
    /\ ~allowInternalLogs["custom"]
    /\ Len(genericMappers["custom"].items) = 2
    /\ genericMappers["custom"].items[2].name = "m50b"

\* C30: Hooks.On panics and leaves every list of every registry as it was
\* when the hook type is none of the ten or the callback is not of the
\* function type of that hook type; a callback of that type is put at the
\* end of the list of that hook type of that registry, no other list
\* changes, and the call returns.
C30_OnChecksTheCallbackType ==
    [][op'.name = "HooksOn" =>
        LET t == op'.arg
            sig == op'.fn.sig
            fits ==
                \/ /\ t \in {"HookCreate", "HookLog", "HookTrace", "HookMap",
                             "HookTranslate", "HookMatch"}
                   /\ sig = "func(*Error, map[string]any)"
                \/ t = "HookWrap" /\ sig = "func(*Error, error)"
                \/ t = "HookFromFail" /\ sig = "func(error)"
                \/ t = "HookFromSuccess" /\ sig = "func(error, *Error)"
                \/ t = "HookForm" /\ sig = "func(ErrorID, *Error)"
        IN IF fits
           THEN /\ ~op'.aborted
                /\ hooks'[op'.reg][t] = Append(hooks[op'.reg][t], op'.fn.run)
                /\ \A r \in Registries : \A u \in HookTypes :
                        (r # op'.reg \/ u # t) => hooks'[r][u] = hooks[r][u]
           ELSE /\ op'.aborted
                /\ hooks' = hooks]_vars

\* after a func(error) was registered for HookFromFail, the same callback
\* was refused for HookFromSuccess and the lists still hold that one listener
C30_Witness ==
    /\ op.name = "HooksOn"
    /\ op.reg = "custom"
    /\ op.arg = "HookFromSuccess"
    /\ op.fn.sig = SigFromFail
    /\ op.aborted
    /\ hooks["custom"]["HookFromFail"] = <<"ok">>
    /\ hooks["custom"]["HookFromSuccess"] = <<>>
    /\ TotalListeners = 1

\* C31: the list GetAllIDs returns and the entries ExportIDList writes hold
\* every allocated identifier exactly once, and of two neighbours the first
\* has the smaller category, or the same category and is Static while the
\* second is Dynamic, or the same category and kind and the smaller number:
\* the output is fixed by the set of allocations.
C31_SnapshotSortedAndComplete ==
    LET out == IF result.op = "GetAllIDs" THEN result.ids
               ELSE [i \in 1..Len(result.entries) |->
                        [name |-> result.entries[i].Name,
                         domain |-> result.entries[i].Domain,
                         isStatic |-> result.entries[i].Static,
                         number |-> result.entries[i].Number]]
        allocated == {registeredIDs[n] : n \in DOMAIN registeredIDs}
    IN result.op \in {"GetAllIDs", "ExportIDList"} =>
        /\ Len(out) = Cardinality(allocated)
        /\ \A id \in allocated :
              \E i \in 1..Len(out) :
                 /\ out[i].name = id.name /\ out[i].domain = id.domain
                 /\ out[i].isStatic = id.isStatic /\ out[i].number = id.number
        /\ result.op = "ExportIDList" =>
              \A i \in 1..Len(out) :
                 result.entries[i].ID = String(registeredIDs[result.entries[i].Name])
        /\ \A i \in 1..(Len(out) - 1) :
              LET a == out[i]
                  b == out[i + 1]
              IN \/ stringLess(a.domain, b.domain, 1)
                 \/ a.domain = b.domain /\ a.isStatic /\ ~b.isStatic
                 \/ a.domain = b.domain /\ a.isStatic = b.isStatic /\ a.number < b.number

\* the snapshot of four allocations lists the one of category A and kind
\* Static, then A Dynamic, then the one of category Ab, then FAIL
C31_Witness ==
    /\ result.op = "GetAllIDs"
    /\ Len(result.ids) = 4
    /\ result.ids[1].domain = DomA /\ result.ids[1].isStatic
    /\ result.ids[2].domain = DomA /\ ~result.ids[2].isStatic
    /\ result.ids[3].domain = DomB
    /\ result.ids[4].domain = reservedDomain

\* C32: while the last AllowStaticMutations of a registry was made with
\* allow = true, Msg and With on an error of a static identifier of that
\* registry do not abort and set the message or the cause they were given.
C32_AllowedStaticMutationApplies ==
    [][(/\ op'.name \in {"Msg", "With"}
        /\ IsStatic(heap[op'.arg].ID)
        /\ allowStaticMutations[heap[op'.arg].registry]) =>
            /\ ~op'.aborted
            /\ op'.name = "Msg" => heap'[op'.arg].Message = "changed"
            /\ op'.name = "With" => heap'[op'.arg].Cause = Foreign("e1")
      ]_vars

\* C33: a Case whose identifier matches the error, so that the handler is
\* called, has invoked every listener of the match event of the error's
\* registry.
C33_MatchFiresMatchEvent ==
    (op.name = "Case" /\ op.handled) =>
        InvokedOf(op.invoked, op.reg, "HookMatch") = AllListeners(op.reg, "HookMatch")

\* C34: ValidateIDs panics exactly when the list of some (category, kind)
\* group is not the run 0, 1, ..., n-1: a number is missing, or occurs twice.
C34_ValidateAbortsIffGapOrDuplicate ==
    result.op = "ValidateIDs" =>
        ((result.outcome # "none") <=>
            \E k \in DOMAIN numberIndex :
                \E i \in 1..Len(numberIndex[k]) : numberIndex[k][i].number # i - 1)

-----------------------------------------------------------------------------
(* Goroutines that add to one error group and read its length               *)

NextAdd ==
    \/ \E t \in Goroutines, err \in GroupErrors : ErrorGroupCall(t, "Add", err)
    \/ \E t \in Goroutines : ErrorGroupCall(t, "Len", "nil")
    \/ \E t \in Goroutines : ErrorGroupAddNil(t)
    \/ \E t \in Goroutines : ErrorGroupLock(t)
    \/ \E t \in Goroutines : ErrorGroupLocked(t)
    \/ \E t \in Goroutines : ErrorGroupAddRead(t)
    \/ \E t \in Goroutines : ErrorGroupAddWrite(t)
    \/ \E t \in Goroutines : ErrorGroupUnlock(t)
    \/ \E t \in Goroutines : ErrorGroupRLock(t, "Len", "called", "Len")
    \/ \E t \in Goroutines : ErrorGroupLenReturn(t, "Len", "done")

SpecAdd == Init /\ [][NextAdd]_vars

\* the goroutines whose Add of a non-nil error has returned
AddsReturned ==
    {t \in Goroutines : goroutines[t].fn = "Add" /\ goroutines[t].err # "nil"
                        /\ goroutines[t].pc = "done"}

\* the goroutines inside Add
AddsInFlight ==
    {t \in Goroutines : goroutines[t].fn = "Add" /\ goroutines[t].pc \notin {"idle", "done"}}

\* C35: ErrorGroup.Add is safe for concurrent use. Whenever no Add is in progress
\* the group holds exactly one error per returned Add of a non-nil error (so k
\* goroutines that each added one error leave Len() = k, and an Add(nil) has
\* added nothing), and a Len that holds its read lock sees that very length.
C35_ConcurrentAddsAreAllRecorded ==
    /\ AddsInFlight = {} =>
           /\ Len(group.errors) = Cardinality(AddsReturned)
           /\ \A t \in AddsReturned :
                  \E i \in 1..Len(group.errors) : group.errors[i] = GroupFrom(goroutines[t].err)
    /\ \A t \in Goroutines :
           goroutines[t].pc = "Len" =>
               Len(group.errors) = Cardinality({u \in Goroutines :
                   goroutines[u].fn = "Add" /\ goroutines[u].pc \in {"unlock", "done"}
                   /\ goroutines[u].err # "nil"})

\* C35 witness: two goroutines have added an error each, a third one has added
\* nil, all three have returned and the group holds two errors
C35_Witness ==
    /\ \A t \in Goroutines : goroutines[t].pc = "done" /\ goroutines[t].fn = "Add"
    /\ Cardinality(AddsReturned) = 2
    /\ Len(group.errors) = 2

-----------------------------------------------------------------------------
(* Goroutines that add to, reset and render one error group                 *)

\* the next step of a call of goroutine t that is under way
GroupStep(t) ==
    \/ ErrorGroupLock(t)
    \/ ErrorGroupLocked(t)
    \/ ErrorGroupAddRead(t)
    \/ ErrorGroupAddWrite(t)
    \/ ErrorGroupResetClear(t)
    \/ ErrorGroupUnlock(t)
    \/ ErrorGroupRLock(t, "Error", "called", "Error")
    \/ ErrorGroupRLock(t, "Error", "Error", "Error.Len")
    \/ ErrorGroupLenReturn(t, "Error.Len", "Error.switch")
    \/ goroutines[t].count > 0 /\ ErrorGroupRLock(t, "Error", "Error.switch", "Error.First")
    \/ ErrorGroupFirstReturn(t)
    \/ ErrorGroupErrorReturn(t)

NextGroup ==
    \/ \E t \in Goroutines : ErrorGroupCall(t, "Add", "e1")
    \/ \E t \in Goroutines : ErrorGroupCall(t, "Reset", "nil")
    \/ \E t \in Goroutines : ErrorGroupCall(t, "Error", "nil")
    \/ \E t \in Goroutines : GroupStep(t)

SpecGroup == Init /\ [][NextGroup]_vars

\* a goroutine that can take its next step is scheduled eventually
SpecGroupFair == SpecGroup /\ \A t \in Goroutines : WF_vars(GroupStep(t))

\* C40: ErrorGroup.Error() always returns, also while other goroutines call Add
\* or Reset on the same group: every call of Error that has started ends.
C40_ErrorAlwaysReturns ==
    \A t \in Goroutines :
        (goroutines[t].fn = "Error" /\ goroutines[t].pc = "called") ~> (goroutines[t].pc = "done")

-----------------------------------------------------------------------------
(* A chain of steps, some of which fail, with Catch in between              *)

NextChain ==
    \/ \E ret \in StepErrors : ChainReturn("Then", ret, Then(chain, ret))
    \/ \E n \in StepNames, ret \in StepErrors :
           ChainReturn("ThenCtx", ret, ThenCtx(chain, n, ret))
    \/ \E b \in BOOLEAN, ret \in StepErrors :
           ChainReturn("ThenIf", ret, ThenIf(chain, b, ret))
    \/ \E b \in BOOLEAN, n \in StepNames, ret \in StepErrors :
           ChainReturn("ThenCtxIf", ret, ThenCtxIf(chain, b, n, ret))
    \/ \E ret \in CatchReturns : ChainReturn("Catch", ret, Catch(chain, ret))

SpecChain == Init /\ [][NextChain]_vars

StepFns == {"Then", "ThenCtx", "ThenIf", "ThenCtxIf"}

\* the i-th call ran a step function that failed
StepFailed(i) == steps[i].fn \in StepFns /\ steps[i].ran /\ steps[i].ret # "nil"

\* the number of step functions that returned nil among the first n calls
StepsSucceeded(n) ==
    Cardinality({i \in 1..n : steps[i].fn \in StepFns /\ steps[i].ran /\ steps[i].ret = "nil"})

\* the i-th call is the last failure and no Catch function ran after it
HeldSince(i) ==
    /\ StepFailed(i)
    /\ \A k \in (i + 1)..Len(steps) : ~steps[k].ran

\* the error a failed step leaves in the chain
ErrorOfStep(i) ==
    /\ chain.err # NilError
    /\ chain.err.cause = steps[i].ret
    /\ chain.err.meta.chain_step_index = StepsSucceeded(i)

\* C36 as stated: after a failed step no later step function runs, the chain
\* keeps the first error unless Catch transforms it, and Step() is the number
\* of steps that succeeded before the failure.
C36_NoStepAfterAFailure ==
    \A i \in 1..Len(steps) :
        StepFailed(i) =>
            /\ \A j \in (i + 1)..Len(steps) : steps[j].fn \in StepFns => ~steps[j].ran
            /\ chain.step = StepsSucceeded(i)
            /\ HeldSince(i) => ErrorOfStep(i)

\* C36, amended: no step function runs while the chain holds an error, so between
\* a failed step and a later step that ran lies a Catch whose function returned
\* nil; an error that no Catch touched is the one the failed step left, with the
\* number of earlier successes as its index; Step() counts the successful steps.
C36_NoStepWhileErrorHeld ==
    /\ \A i \in 1..Len(steps) :
           StepFailed(i) =>
               /\ \A j \in (i + 1)..Len(steps) :
                      (steps[j].fn \in StepFns /\ steps[j].ran) =>
                          \E k \in (i + 1)..(j - 1) :
                              steps[k].fn = "Catch" /\ steps[k].ran /\ steps[k].ret = "nil"
               /\ HeldSince(i) => (ErrorOfStep(i) /\ chain.step = StepsSucceeded(i))
    /\ chain.step = StepsSucceeded(Len(steps))
    /\ (chain.err = NilError /\ \E i \in 1..Len(steps) : StepFailed(i)) =>
           \E k \in 1..Len(steps) : steps[k].fn = "Catch" /\ steps[k].ran /\ steps[k].ret = "nil"

\* C36 witness: a step succeeded, the next one failed and a Then after it was
\* skipped; the chain holds the error of the failed step and Step() is 1
C36_Witness ==
    /\ Len(steps) = 3
    /\ steps[1].ran /\ steps[1].ret = "nil" /\ steps[1].fn \in StepFns
    /\ StepFailed(2)
    /\ steps[3].fn = "Then" /\ ~steps[3].ran
    /\ chain.step = 1 /\ ErrorOfStep(2)

-----------------------------------------------------------------------------
(* Retried calls under every configuration                                  *)

\* the next step of a call that is under way
RetryStep ==
    \/ \E err \in AttemptErrors : RetryAttempt(err)
    \/ RetryExhausted

NextRetry ==
    \/ \E config \in RetryConfigs : SetRetryConfig(config)
    \/ \E fn \in RetryFns, config \in RetryConfigs : RetryCall(fn, config)
    \/ RetryStep
    \/ RetryDone

SpecRetry == Init /\ [][NextRetry]_vars

\* fn returns, and the goroutine that runs the loop is scheduled
SpecRetryFair == SpecRetry /\ WF_vars(RetryStep)

\* the attempts the caller asked for: the MaxAttempts given to the CFG functions,
\* 0 or less counting as 1, or the MaxAttempts of the package configuration
AttemptsAllowed ==
    IF retry.fn \in {"RetryCFG", "RetryValueCFG"}
    THEN (IF retry.config.MaxAttempts <= 0 THEN 1 ELSE retry.config.MaxAttempts)
    ELSE retry.cfg.MaxAttempts

\* err makes the loop go on
Retryable(err) == RetryAs(err) /\ ShouldRetry(retry.cfg, err)

\* C37: the four retry functions end after at most MaxAttempts calls of fn (0 or
\* less counting as 1): every call but the last failed with a retryable error, a
\* call that returned nil or an error that is not retryable is the last one, and
\* when all attempts failed with retryable errors fn was called exactly
\* MaxAttempts times and the last error is returned; every call that starts ends.
C37_RetryEndsWithinMaxAttempts ==
    /\ [](/\ retryConfig.MaxAttempts >= 1
          /\ Len(retry.calls) <= AttemptsAllowed
          /\ \A k \in 1..(Len(retry.calls) - 1) : Retryable(retry.calls[k])
          /\ retry.pc = "loop" => \A k \in 1..Len(retry.calls) : Retryable(retry.calls[k])
          /\ retry.pc = "done" =>
                 /\ Len(retry.calls) >= 1
                 /\ retry.ret.err = retry.calls[Len(retry.calls)]
                 /\ Retryable(retry.calls[Len(retry.calls)]) =>
                        Len(retry.calls) = AttemptsAllowed)
    /\ (retry.pc = "loop") ~> (retry.pc = "done")

\* C37 witness: RetryCFG with MaxAttempts 3 has called fn three times, every call
\* failed with a retryable error, and the last error is returned
C37_Witness ==
    /\ retry.pc = "done" /\ retry.fn = "RetryCFG"
    /\ retry.config.MaxAttempts = 3
    /\ retry.calls = <<"retryable", "retryable", "retryable">>
    /\ retry.ret.err = "retryable"

-----------------------------------------------------------------------------
(* Rejected allocations                                                     *)

RejectDomains == {DomA, reservedDomain}
RejectNames == {NameAa, NameAb, NameAx, NameFx}
RejectNumbers == (0 - 1)..1

NextReject ==
    \/ \E domain \in RejectDomains, number \in RejectNumbers, static \in BOOLEAN,
          name \in RejectNames, beforeMain \in BOOLEAN :
           ID(0, domain, number, static, name, beforeMain)
    \/ \E number \in RejectNumbers, static \in BOOLEAN : internalID(0, number, static, NameFx)
    \/ Return

SpecReject == Init /\ [][NextReject]_vars

\* the call that returns in this step was rejected
RejectedNow == result = NoCall /\ result' # NoCall /\ result'.outcome # "none"

\* the verdict of a later allocation, on the given maps
LaterVerdict(ids, idx, domain, number, static, name) ==
    IF domain = reservedDomain THEN "reserved"
    ELSE Validate(ids, idx, domain, number, static, name)

\* C38: a rejected allocation leaves the allocator as it was and usable: no name
\* is added, the numbers of every group are the same, the lock is free again,
\* and every later allocation gets the verdict it would have got without the
\* rejected call.
C38_RejectedAllocationChangesNothing ==
    [][RejectedNow =>
          /\ registeredIDs' = registeredIDs
          /\ \A key \in (DOMAIN numberIndex) \cup (DOMAIN numberIndex') :
                 GroupList(numberIndex', key) = GroupList(numberIndex, key)
          /\ mu' = 0
          /\ \A domain \in RejectDomains, number \in RejectNumbers, static \in BOOLEAN,
                name \in RejectNames :
                 LaterVerdict(registeredIDs', numberIndex', domain, number, static, name)
                     = LaterVerdict(registeredIDs, numberIndex, domain, number, static, name)
      ]_vars

\* C38 witness: a call for number 1 of a group without numbers was rejected for
\* the gap; the allocator holds the list of the group, empty, and a name of an
\* earlier call
C38_Witness ==
    /\ result # NoCall /\ result.outcome = "gap" /\ result.number = 1
    /\ GroupKey(result.domain, result.static) \in DOMAIN numberIndex
    /\ numberIndex[GroupKey(result.domain, result.static)] = <<>>
    /\ result.name \notin DOMAIN registeredIDs
    /\ registeredIDs # <<>>

-----------------------------------------------------------------------------
(* From while mappers call back into the registry and others add mappers    *)

\* the next step of the call of goroutine t
LockStep(t) ==
    \/ MapRLock(t)
    \/ MapNext(t)
    \/ MapEnd(t)
    \/ MapperCallsRegisterMapper(t)
    \/ MapperCallsFrom(t)
    \/ InnerMapRLock(t)
    \/ InnerMapReturn(t)
    \/ MapRUnlock(t)
    \/ RegistryLock(t)
    \/ AddLock(t)
    \/ AddInsert(t)
    \/ AddUnlock(t)

NextLock ==
    \/ \E t \in Goroutines, v \in {"e1", "e2"} : CallFrom(t, Foreign(v))
    \/ \E t \in Goroutines, m \in CallingMappers : CallRegisterMapper(t, m)
    \/ \E t \in Goroutines : LockStep(t)

SpecLock == Init /\ [][NextLock]_vars

\* a goroutine that can take its next step is scheduled eventually
SpecLockFair == SpecLock /\ \A t \in Goroutines : WF_vars(LockStep(t))

\* C39: a From call always completes, also when the conversion function of a
\* mapper calls RegisterMapper or From of the same registry and while other
\* goroutines add mappers: every From that has started returns.
C39_FromAlwaysCompletes ==
    \A t \in Goroutines :
        (callers[t].fn = "From" /\ callers[t].pc = "Map") ~> (callers[t].pc = "done")

====
